---- MODULE Spec2Model ----
(***************************************************************************)
(* Model of the Gmail phishing-detector extension:                         *)
(*   - contentScript.js: computeHeuristics, combineScores, analyseMessage, *)
(*     finishWithScore, insertIndicator                                    *)
(*   - background.js: the analyzeEmail message handler                     *)
(* Texts are TLA+ strings; the JavaScript string and regular-expression    *)
(* operations are written out as operators over them (ASCII only).         *)
(***************************************************************************)
EXTENDS Integers, Sequences, FiniteSets, TLC

(***************************************************************************)
(* JavaScript string primitives                                            *)
(***************************************************************************)
\* const x = v; ...rest: the rest of a block, F, applied to the value v,
\* which is computed once, as the declaration does
With(v, F(_)) == (CHOOSE r \in {<<F(x)>> : x \in {v}} : TRUE)[1]

Min(a, b) == IF a <= b THEN a ELSE b
Max(a, b) == IF a >= b THEN a ELSE b

LowerLetters == "abcdefghijklmnopqrstuvwxyz"
UpperLetters == "ABCDEFGHIJKLMNOPQRSTUVWXYZ"
DigitChars == "0123456789"

\* s[i] as a one-character string (1-based)
CharAt(s, i) == SubSeq(s, i, i)

\* the set of characters of a string
CharsOf(s) == {CharAt(s, i) : i \in 1..Len(s)}

LowerSet == CharsOf(LowerLetters)
UpperSet == CharsOf(UpperLetters)
LetterSet == LowerSet \cup UpperSet
DigitSet == CharsOf(DigitChars)
\* \w
WordSet == LetterSet \cup DigitSet \cup {"_"}
\* \s (ASCII part)
SpaceSet == {" ", "\n", "\t", "\r"}
\* [a-zA-Z0-9.-]
DomainCharSet == LetterSet \cup DigitSet \cup {".", "-"}

IndexIn(c, alphabet) == CHOOSE i \in 1..Len(alphabet) : CharAt(alphabet, i) = c

LowerOf == [c \in UpperSet |-> CharAt(LowerLetters, IndexIn(c, UpperLetters))]
UpperOf == [c \in LowerSet |-> CharAt(UpperLetters, IndexIn(c, LowerLetters))]
LowerChar(c) == IF c \in UpperSet THEN LowerOf[c] ELSE c
UpperChar(c) == IF c \in LowerSet THEN UpperOf[c] ELSE c

\* String.prototype.toLowerCase / toUpperCase, character by character
RECURSIVE toLowerCase(_)
toLowerCase(s) ==
  IF Len(s) = 0 THEN ""
  ELSE IF Len(s) = 1 THEN LowerChar(s)
  ELSE toLowerCase(SubSeq(s, 1, Len(s) \div 2)) \o toLowerCase(SubSeq(s, Len(s) \div 2 + 1, Len(s)))

RECURSIVE toUpperCase(_)
toUpperCase(s) ==
  IF Len(s) = 0 THEN ""
  ELSE IF Len(s) = 1 THEN UpperChar(s)
  ELSE toUpperCase(SubSeq(s, 1, Len(s) \div 2)) \o toUpperCase(SubSeq(s, Len(s) \div 2 + 1, Len(s)))

\* p occurs in s starting at 1-based position i
MatchAt(s, i, p) == i >= 1 /\ i + Len(p) - 1 <= Len(s) /\ SubSeq(s, i, i + Len(p) - 1) = p

\* String.prototype.includes / startsWith / endsWith
includes(s, p) == \E i \in 1..(Len(s) - Len(p) + 1) : MatchAt(s, i, p)
startsWith(s, p) == MatchAt(s, 1, p)
endsWith(s, p) == MatchAt(s, Len(s) - Len(p) + 1, p)

\* first position of lo..hi whose character is in cs (member) or not in cs (~member), or 0
RECURSIVE FirstWhere(_, _, _, _, _)
FirstWhere(s, lo, hi, cs, member) ==
  IF lo > hi THEN 0
  ELSE IF lo = hi THEN (IF (CharAt(s, lo) \in cs) = member THEN lo ELSE 0)
  ELSE LET l == FirstWhere(s, lo, (lo + hi) \div 2, cs, member)
       IN IF l # 0 THEN l ELSE FirstWhere(s, (lo + hi) \div 2 + 1, hi, cs, member)

OrEnd(s, k) == IF k = 0 THEN Len(s) + 1 ELSE k

\* first position >= i whose character is in cs, or Len(s)+1
FindChar(s, i, cs) == OrEnd(s, FirstWhere(s, Max(i, 1), Len(s), cs, TRUE))

\* first position >= i whose character is NOT in cs, or Len(s)+1 (end of a greedy run of cs)
RunEnd(s, i, cs) == OrEnd(s, FirstWhere(s, Max(i, 1), Len(s), cs, FALSE))

\* first position >= i whose character IS in cs, or Len(s)+1 (end of a greedy run of [^cs])
RunEndNot(s, i, cs) == FindChar(s, i, cs)

\* String.prototype.split(sep) for a one-character separator
RECURSIVE split(_, _)
split(s, sep) ==
  With(FindChar(s, 1, {sep}), LAMBDA k :
    IF k > Len(s) THEN <<s>>
    ELSE <<SubSeq(s, 1, k - 1)>> \o split(SubSeq(s, k + 1, Len(s)), sep))

\* String.prototype.split(/\n+/)
RECURSIVE splitNewlines(_)
splitNewlines(s) ==
  With(FindChar(s, 1, {"\n"}), LAMBDA k :
    IF k > Len(s) THEN <<s>>
    ELSE <<SubSeq(s, 1, k - 1)>> \o splitNewlines(SubSeq(s, RunEnd(s, k, {"\n"}), Len(s))))

\* String.prototype.trim
RECURSIVE trimEnd(_)
trimEnd(s) == IF s # "" /\ CharAt(s, Len(s)) \in SpaceSet THEN trimEnd(SubSeq(s, 1, Len(s) - 1)) ELSE s
trim(s) == trimEnd(SubSeq(s, RunEnd(s, 1, SpaceSet), Len(s)))

\* Array.prototype.join
RECURSIVE join(_, _)
join(a, sep) ==
  IF Len(a) = 0 THEN ""
  ELSE IF Len(a) = 1 THEN a[1]
  ELSE a[1] \o sep \o join(Tail(a), sep)

\* an includes that finds nothing
contains_never(a, x) == FALSE

\* Array.prototype.includes
contains(a, x) == \E k \in 1..Len(a) : a[k] = x

\* [...new Set(a)]: first occurrences, in order
RECURSIVE unique(_)
unique(a) ==
  IF Len(a) = 0 THEN <<>>
  ELSE With(unique(SubSeq(a, 1, Len(a) - 1)), LAMBDA r :
         IF \E i \in 1..Len(r) : r[i] = a[Len(a)] THEN r ELSE Append(r, a[Len(a)]))

\* \b before 1-based position i (between s[i-1] and s[i])
WordBoundary(s, i) ==
  LET before == i >= 2 /\ i - 1 <= Len(s) /\ CharAt(s, i - 1) \in WordSet
      after == i >= 1 /\ i <= Len(s) /\ CharAt(s, i) \in WordSet
  IN before # after

(***************************************************************************)
(* RegExp.prototype.test: regular expressions as syntax trees; Ends gives  *)
(* every offset (number of characters consumed) a match started at one of  *)
(* the offsets of P can end at.  Used for the patterns that are only       *)
(* tested (no capture groups are read).  The i flag is modelled by testing *)
(* the lowercased subject against a lowercase tree.                        *)
(***************************************************************************)
Lit(s) == [t |-> "lit", s |-> s]
Cls(cs) == [t |-> "cls", cs |-> cs]
NCls(cs) == [t |-> "ncls", cs |-> cs]
Cat(a) == [t |-> "cat", a |-> a]
Alt(a) == [t |-> "alt", a |-> a]
Star(r) == [t |-> "star", r |-> r]
Plus(r) == [t |-> "plus", r |-> r]
Opt(r) == [t |-> "opt", r |-> r]
AtLeast(n, r) == [t |-> "atleast", n |-> n, r |-> r]
Between(n, m, r) == [t |-> "between", n |-> n, m |-> m, r |-> r]
Bol == [t |-> "bol"]
Eol == [t |-> "eol"]
Wb == [t |-> "wb"]

RECURSIVE Ends(_, _, _)
RECURSIVE CatEnds(_, _, _)
RECURSIVE Closure(_, _, _)
RECURSIVE Times(_, _, _, _)
Ends(r, s, P) ==
  CASE r.t = "lit" -> {p + Len(r.s) : p \in {q \in P : MatchAt(s, q + 1, r.s)}}
    [] r.t = "cls" -> {p + 1 : p \in {q \in P : q < Len(s) /\ CharAt(s, q + 1) \in r.cs}}
    [] r.t = "ncls" -> {p + 1 : p \in {q \in P : q < Len(s) /\ CharAt(s, q + 1) \notin r.cs}}
    [] r.t = "cat" -> CatEnds(r.a, s, P)
    [] r.t = "alt" -> UNION {Ends(r.a[k], s, P) : k \in 1..Len(r.a)}
    [] r.t = "star" -> Closure(r.r, s, P)
    [] r.t = "plus" -> Closure(r.r, s, Ends(r.r, s, P))
    [] r.t = "opt" -> P \cup Ends(r.r, s, P)
    [] r.t = "atleast" -> Closure(r.r, s, Times(r.n, r.r, s, P))
    [] r.t = "between" -> UNION {Times(k, r.r, s, P) : k \in r.n..r.m}
    [] r.t = "bol" -> {p \in P : p = 0}
    [] r.t = "eol" -> {p \in P : p = Len(s)}
    [] r.t = "wb" -> {p \in P : WordBoundary(s, p + 1)}
CatEnds(a, s, P) ==
  IF Len(a) = 0 \/ P = {} THEN P ELSE CatEnds(Tail(a), s, Ends(Head(a), s, P))
Closure(r, s, P) ==
  With(Ends(r, s, P) \ P, LAMBDA N :
    IF N = {} THEN P ELSE Closure(r, s, P \cup N))
Times(n, r, s, P) == IF n = 0 THEN P ELSE Times(n - 1, r, s, Ends(r, s, P))

\* pattern.test(s) for a pattern without the g flag
test(r, s) == Ends(r, s, 0..Len(s)) # {}
\* the same for a pattern with the i flag (tree written in lowercase)
testI(r, s) == test(r, toLowerCase(s))

(***************************************************************************)
(* computeHeuristics: fixed tables (contentScript.js 707-755)              *)
(***************************************************************************)
suspiciousDomains == <<
  "paypal.com.security.login.com",
  "amazon.account.security.com",
  "microsoft-office.com",
  "appleid.apple.com.security.check.com",
  "irs.gov.tax.refund.com",
  "bankofamerica.com.login.verify.com",
  "wellsfargo.security.verify.com",
  "chase.com.security.alert.com",
  "facebook.password.reset.com",
  "gmail.login.verify.com",
  "outlook.login.verify.com",
  "linkedin.security.verify.com",
  "dropbox.login.verify.com",
  "icloud.verify.account.com",
  "netflix.billing.verify.com">>

urgentKeywords == <<
  "urgent", "immediate", "asap", "expires", "deadline", "time sensitive",
  "act now", "limited time", "expires today", "final notice", "last chance",
  "needs your attention", "requires immediate", "must be completed",
  "avoid losing", "will result in", "by thursday", "by friday", "by monday",
  "within 24 hours", "within 48 hours", "before", "review this document by">>

actionKeywords == <<
  "verify", "confirm", "update", "validate", "activate", "click here",
  "click below", "click link", "download", "open attachment", "view document",
  "view it now", "click the", "access your", "review this", "complete this",
  "take action", "respond immediately", "sign in", "log in", "login now">>

securityKeywords == <<
  "password", "account", "login", "security", "suspended", "locked",
  "compromised", "unauthorized", "breach", "violation", "alert",
  "policy document", "security warning", "access to your accounts",
  "losing access", "account closure", "account suspension">>

financialKeywords == <<
  "bank", "payment", "invoice", "refund", "credit card", "wire transfer",
  "tax", "irs", "paypal", "amazon", "apple", "microsoft", "google",
  "accounts", "billing", "financial">>

legitimateDomains == <<"joby.aero", "paypal.com", "amazon.com", "microsoft.com", "google.com", "apple.com">>

(***************************************************************************)
(* The running state of one computeHeuristics call: the three locals of    *)
(* lines 701-703 plus the history of values assigned to `score`.           *)
(***************************************************************************)
EmptyRun == [score |-> 0, details |-> <<>>, suspiciousElements |-> <<>>, trace |-> <<0>>]

\* score = v
SetScore(st, v) == [st EXCEPT !.score = v, !.trace = Append(@, v)]
\* score += n
AddScore(st, n) == SetScore(st, st.score + n)
\* details.push(d)
PushDetail(st, d) == [st EXCEPT !.details = Append(@, d)]
\* suspiciousElements.push(...a)
PushSuspicious(st, a) == [st EXCEPT !.suspiciousElements = @ \o a]

\* kws.forEach(kw => { if (lowerBody.includes(kw)) hits++ })
countHits(lowerBody, kws) == Cardinality({k \in 1..Len(kws) : includes(lowerBody, kws[k])})

\* `Contains ${hits} <name> keyword${hits > 1 ? 's' : ''}`
keywordDetail(hits, name) ==
  "Contains " \o ToString(hits) \o " " \o name \o " keyword" \o (IF hits > 1 THEN "s" ELSE "")

\* a category without its cap
keywordCategory_uncapped(st, hits, cap, weight, name) ==
  IF hits > 0
  THEN PushDetail(AddScore(st, hits * weight), keywordDetail(hits, name))
  ELSE st

\* one category: if (hits > 0) { score += Math.min(cap, hits * weight); details.push(...) }
keywordCategory(st, hits, cap, weight, name) ==
  IF hits > 0
  THEN PushDetail(AddScore(st, Min(cap, hits * weight)), keywordDetail(hits, name))
  ELSE st

\* if (both) { score += n; details.push(d) }
combination(st, both, n, d) == IF both THEN PushDetail(AddScore(st, n), d) ELSE st

\* the urgent + action combination subtracting its 10 points
keywordDetector_signSlip(st, lowerBody) ==
  With(countHits(lowerBody, urgentKeywords), LAMBDA urgentHits :
  With(countHits(lowerBody, actionKeywords), LAMBDA actionHits :
  With(countHits(lowerBody, securityKeywords), LAMBDA securityHits :
  With(countHits(lowerBody, financialKeywords), LAMBDA financialHits :
  With(keywordCategory(
         keywordCategory(
           keywordCategory(
             keywordCategory(st, urgentHits, 15, 8, "urgent"),
             actionHits, 12, 6, "action"),
           securityHits, 10, 5, "security"),
         financialHits, 8, 4, "financial"), LAMBDA s4 :
  With(combination(s4, urgentHits > 0 /\ actionHits > 0, 0 - 10,
         "Dangerous combination: urgent language + action request"), LAMBDA s5 :
    combination(s5, securityHits > 0 /\ actionHits > 0, 8,
      "Suspicious combination: security alert + action request")))))))

\* lines 757-799
keywordDetector(st, lowerBody) ==
  With(countHits(lowerBody, urgentKeywords), LAMBDA urgentHits :
  With(countHits(lowerBody, actionKeywords), LAMBDA actionHits :
  With(countHits(lowerBody, securityKeywords), LAMBDA securityHits :
  With(countHits(lowerBody, financialKeywords), LAMBDA financialHits :
  With(keywordCategory(
         keywordCategory(
           keywordCategory(
             keywordCategory(st, urgentHits, 15, 8, "urgent"),
             actionHits, 12, 6, "action"),
           securityHits, 10, 5, "security"),
         financialHits, 8, 4, "financial"), LAMBDA s4 :
  With(combination(s4, urgentHits > 0 /\ actionHits > 0, 10,
         "Dangerous combination: urgent language + action request"), LAMBDA s5 :
    combination(s5, securityHits > 0 /\ actionHits > 0, 8,
      "Suspicious combination: security alert + action request")))))))

\* (body.match(/https?:\/\//gi) || []).length
linkCountOf(lowerBody) ==
  Cardinality({i \in 1..Len(lowerBody) : MatchAt(lowerBody, i, "http://") \/ MatchAt(lowerBody, i, "https://")})

\* lines 801-807
linkCountDetector(st, lowerBody) ==
  With(linkCountOf(lowerBody), LAMBDA linkCount :
    IF linkCount > 5
    THEN PushDetail(AddScore(st, Min(20, (linkCount - 5) * 2)),
                    "Contains many links (" \o ToString(linkCount) \o ")")
    ELSE st)

(***************************************************************************)
(* Deceptive-link detector (lines 809-899).  The patterns with capture     *)
(* groups are scanned the way the backtracking matcher resolves them; `lb` *)
(* is the lowercased subject (the i flag), captures are cut from `s`.      *)
(***************************************************************************)
NoMatch == [found |-> FALSE]

\* .replace(/^https?:\/\//i, '')
stripScheme(x) ==
  With(toLowerCase(x), LAMBDA lx :
    IF startsWith(lx, "https://") THEN SubSeq(x, 9, Len(x))
    ELSE IF startsWith(lx, "http://") THEN SubSeq(x, 8, Len(x))
    ELSE x)

\* .replace(/^www\./i, '')
stripWww(x) == IF startsWith(toLowerCase(x), "www.") THEN SubSeq(x, 5, Len(x)) ELSE x

lastTwo(parts) == parts[Len(parts) - 1] \o "." \o parts[Len(parts)]

\* getBaseDomain of line 822 (strips a leading www.)
getBaseDomain(domain) ==
  With(split(stripWww(domain), "."), LAMBDA parts :
    IF Len(parts) >= 2 THEN lastTwo(parts) ELSE domain)

\* getBaseDomain of line 878 (the markdown branch shadows it without the www. strip)
getBaseDomainMarkdown(domain) ==
  With(split(domain, "."), LAMBDA parts :
    IF Len(parts) >= 2 THEN lastTwo(parts) ELSE domain)

\* length of the scheme https?:\/\/ at position i of lb, or 0
schemeLen(lb, i) ==
  IF MatchAt(lb, i, "http://") THEN 7 ELSE IF MatchAt(lb, i, "https://") THEN 8 ELSE 0

\* [a-zA-Z0-9.-]+\.[a-zA-Z]{2,} starting at i: the dots d of the run of
\* domain characters from i that leave a non-empty prefix and are followed
\* by two letters
tldDots(s, i) ==
  {d \in (i + 1)..(RunEnd(s, i, DomainCharSet) - 1) :
     /\ CharAt(s, d) = "."
     /\ d + 2 <= Len(s)
     /\ CharAt(s, d + 1) \in LetterSet
     /\ CharAt(s, d + 2) \in LetterSet}

MaxOf(S) == CHOOSE x \in S : \A y \in S : y <= x
MinOf(S) == CHOOSE x \in S : \A y \in S : x <= y

\* href=["']https?:\/\/([^"'>\/]+) at position r of lb: the extent of group 2
hrefAt(lb, r) ==
  With(schemeLen(lb, r + 6), LAMBDA n :
  With(r + 6 + n, LAMBDA g :
    IF /\ MatchAt(lb, r, "href=")
       /\ r + 5 <= Len(lb) /\ CharAt(lb, r + 5) \in {"\"", "'"}
       /\ n > 0
       /\ g <= Len(lb) /\ CharAt(lb, g) \notin {"\"", "'", ">", "/"}
    THEN [found |-> TRUE, from |-> g, to |-> RunEndNot(lb, g, {"\"", "'", ">", "/"})]
    ELSE NoMatch))

\* [^<]*<[^>]*href=["']https?:\/\/([^"'>\/]+) from position p: the tag is the
\* first `<` at or after p, the greedy [^>]* takes the last href of the tag
hrefTail(lb, p) ==
  With(FindChar(lb, p, {"<"}), LAMBDA q :
  With(FindChar(lb, q + 1, {">"}), LAMBDA te :
  With({r \in (q + 1)..te : hrefAt(lb, r).found}, LAMBDA R :
    IF q <= Len(lb) /\ R # {} THEN hrefAt(lb, MaxOf(R)) ELSE NoMatch)))

\* deceptiveLinkPatterns[0] anchored at i:
\* /\b([a-zA-Z0-9.-]+\.[a-zA-Z]{2,}[^\s<]*?)\b[^<]*<[^>]*href=["']https?:\/\/([^"'>\/]+)/gi
anchorTextAt(s, lb, i) ==
  With(tldDots(s, i), LAMBDA D :
    IF WordBoundary(s, i) /\ D # {}
    THEN With(RunEnd(s, RunEnd(s, MaxOf(D) + 1, LetterSet), WordSet), LAMBDA p :
         With(hrefTail(lb, p), LAMBDA tl :
           IF tl.found
           THEN [found |-> TRUE, g1 |-> SubSeq(s, i, p - 1), g2 |-> SubSeq(s, tl.from, tl.to - 1), end |-> tl.to]
           ELSE NoMatch))
    ELSE NoMatch)

\* deceptiveLinkPatterns[1] anchored at i:
\* /(https?:\/\/[a-zA-Z0-9.-]+\.[a-zA-Z]{2,}[^\s<]*)[^<]*<[^>]*href=["']https?:\/\/([^"'>\/]+)/gi
anchorUrlAt(s, lb, i) ==
  With(schemeLen(lb, i), LAMBDA n :
    IF n > 0 /\ tldDots(s, i + n) # {}
    THEN With(RunEndNot(s, i, SpaceSet \cup {"<"}), LAMBDA p :
         With(hrefTail(lb, p), LAMBDA tl :
           IF tl.found
           THEN [found |-> TRUE, g1 |-> SubSeq(s, i, p - 1), g2 |-> SubSeq(s, tl.from, tl.to - 1), end |-> tl.to]
           ELSE NoMatch))
    ELSE NoMatch)

\* the tail \.[a-zA-Z]{2,}\/ of a run of domain characters i..e-1 that is followed by `/`
endsInTldSlash(s, i, e) ==
  With({d \in (i + 1)..(e - 1) : CharAt(s, d) = "."}, LAMBDA Dots :
    /\ e <= Len(s) /\ CharAt(s, e) = "/"
    /\ Dots # {}
    /\ With(MaxOf(Dots), LAMBDA d :
         /\ e - d - 1 >= 2
         /\ \A k \in (d + 1)..(e - 1) : CharAt(s, k) \in LetterSet))

\* suspiciousDisplayPatterns[0] anchored at i: /\bwww\.[a-zA-Z0-9.-]+\.[a-zA-Z]{2,}\/[^\s<]*/gi
wwwPathAt(s, lb, i) ==
  With(RunEnd(s, i + 4, DomainCharSet), LAMBDA e :
  With(RunEndNot(s, e + 1, SpaceSet \cup {"<"}), LAMBDA pe :
    IF WordBoundary(s, i) /\ MatchAt(lb, i, "www.") /\ endsInTldSlash(s, i + 4, e)
    THEN [found |-> TRUE, g0 |-> SubSeq(s, i, pe - 1), end |-> pe]
    ELSE NoMatch))

\* suspiciousDisplayPatterns[1] anchored at i: /\b[a-zA-Z0-9.-]+\.[a-zA-Z]{2,}\/[a-zA-Z0-9._-]+/gi
domainPathAt(s, lb, i) ==
  With(RunEnd(s, i, DomainCharSet), LAMBDA e :
  With(RunEnd(s, e + 1, DomainCharSet \cup {"_"}), LAMBDA pe :
    IF WordBoundary(s, i) /\ endsInTldSlash(s, i, e) /\ pe > e + 1
    THEN [found |-> TRUE, g0 |-> SubSeq(s, i, pe - 1), end |-> pe]
    ELSE NoMatch))

\* /\b([a-zA-Z0-9.-]+\.[a-zA-Z]{2,})\b/ anchored at j of t: the dots whose
\* letter run ends at a word boundary
boundedTldDots(t, j) ==
  {d \in tldDots(t, j) :
     With(RunEnd(t, d + 1, LetterSet), LAMBDA le : RunEnd(t, le, WordSet) = le)}

\* displayText.match(/\b([a-zA-Z0-9.-]+\.[a-zA-Z]{2,})\b/): group 1 of the first match
domainInText(t) ==
  With({j \in 1..Len(t) : WordBoundary(t, j) /\ boundedTldDots(t, j) # {}}, LAMBDA J :
    IF J = {} THEN NoMatch
    ELSE With(MinOf(J), LAMBDA j :
           [found |-> TRUE,
            g1 |-> SubSeq(t, j, RunEnd(t, MaxOf(boundedTldDots(t, j)) + 1, LetterSet) - 1)]))

\* markdownLinkRegex anchored at i:
\* /\[([^\]]*\b[a-zA-Z0-9.-]+\.[a-zA-Z]{2,}[^\]]*)\]\(https?:\/\/([^)>\/]+)[^)]*\)/gi
markdownAt(s, lb, i) ==
  With(FindChar(s, i + 1, {"]"}), LAMBDA c :
  With(schemeLen(lb, c + 2), LAMBDA n :
  With(c + 2 + n, LAMBDA g :
  With(RunEndNot(s, g, {")", ">", "/"}), LAMBDA ge :
  With(FindChar(s, ge, {")"}), LAMBDA close :
    IF /\ i <= Len(s) /\ CharAt(s, i) = "["
       /\ c <= Len(s)
       /\ \E j \in (i + 1)..(c - 1) : WordBoundary(s, j) /\ \E d \in tldDots(s, j) : d + 2 <= c - 1
       /\ MatchAt(s, c, "](") /\ n > 0
       /\ ge > g
       /\ close <= Len(s)
    THEN [found |-> TRUE, g1 |-> SubSeq(s, i + 1, c - 1), g2 |-> SubSeq(s, g, ge - 1), end |-> close + 1]
    ELSE NoMatch)))))

LinkStopSet == {"/", "'", "\""} \cup SpaceSet

\* domainRegex = /https?:\/\/(?:www\.)?([^\/'\"\s]+)/gi anchored at i of lb
linkDomainAt(lb, i) ==
  With(schemeLen(lb, i), LAMBDA n :
  With(i + n, LAMBDA h :
  With(IF MatchAt(lb, h, "www.") /\ h + 4 <= Len(lb) /\ CharAt(lb, h + 4) \notin LinkStopSet
       THEN h + 4 ELSE h, LAMBDA g :
  With(RunEndNot(lb, g, LinkStopSet), LAMBDA ge :
    IF n > 0 /\ ge > g
    THEN [found |-> TRUE, g1 |-> SubSeq(lb, g, ge - 1), end |-> ge]
    ELSE NoMatch))))

patternAt(kind, s, lb, i) ==
  CASE kind = "anchorText" -> anchorTextAt(s, lb, i)
    [] kind = "anchorUrl" -> anchorUrlAt(s, lb, i)
    [] kind = "wwwPath" -> wwwPathAt(s, lb, i)
    [] kind = "domainPath" -> domainPathAt(s, lb, i)
    [] kind = "markdown" -> markdownAt(s, lb, i)
    [] kind = "linkDomain" -> linkDomainAt(lb, i)

\* pattern.exec: the match at the leftmost position of lo..hi that has one
RECURSIVE exec(_, _, _, _, _)
exec(kind, s, lb, lo, hi) ==
  IF lo > hi THEN NoMatch
  ELSE IF lo = hi THEN patternAt(kind, s, lb, lo)
  ELSE With(exec(kind, s, lb, lo, (lo + hi) \div 2), LAMBDA l :
         IF l.found THEN l ELSE exec(kind, s, lb, (lo + hi) \div 2 + 1, hi))

\* while ((match = pattern.exec(body)) !== null): all matches from position i on
RECURSIVE execAll(_, _, _, _)
execAll(kind, s, lb, i) ==
  With(exec(kind, s, lb, i, Len(s)), LAMBDA m :
    IF m.found THEN <<m>> \o execAll(kind, s, lb, m.end) ELSE <<>>)

\* lines 828-841: the entries pushed for the matches ms of one HTML-style pattern
RECURSIVE htmlStyleLinks(_)
htmlStyleLinks(ms) ==
  IF Len(ms) = 0 THEN <<>>
  ELSE With(stripWww(stripScheme(ms[1].g1)), LAMBDA displayDomain :
       With(ms[1].g2, LAMBDA actualDomain :
         (IF getBaseDomain(toLowerCase(displayDomain)) # getBaseDomain(toLowerCase(actualDomain))
          THEN <<[display |-> displayDomain, actual |-> actualDomain]>>
          ELSE <<>>) \o htmlStyleLinks(Tail(ms))))

\* lines 850-865: the entries pushed for the matches ms of one display pattern
RECURSIVE displayPatternLinks(_)
displayPatternLinks(ms) ==
  IF Len(ms) = 0 THEN <<>>
  ELSE With(ms[1].g0, LAMBDA displayText :
       With(toLowerCase(stripWww(split(displayText, "/")[1])), LAMBDA lowerDomain :
         (IF \E k \in 1..Len(legitimateDomains) :
               includes(lowerDomain, toLowerCase(legitimateDomains[k]))
          THEN <<[display |-> displayText, actual |-> "potentially deceptive link pattern"]>>
          ELSE <<>>) \o displayPatternLinks(Tail(ms))))

\* lines 867-890: the entries pushed for the markdown matches ms
RECURSIVE markdownLinks(_)
markdownLinks(ms) ==
  IF Len(ms) = 0 THEN <<>>
  ELSE With(ms[1].g2, LAMBDA actualDomain :
       With(domainInText(ms[1].g1), LAMBDA dit :
         (IF /\ dit.found
             /\ getBaseDomainMarkdown(toLowerCase(dit.g1)) # getBaseDomainMarkdown(toLowerCase(actualDomain))
          THEN <<[display |-> dit.g1, actual |-> actualDomain]>>
          ELSE <<>>) \o markdownLinks(Tail(ms))))

\* the deceptiveLinks array of line 819 after lines 828-890
deceptiveLinksOf(b) ==
  With(toLowerCase(b), LAMBDA lb :
    htmlStyleLinks(execAll("anchorText", b, lb, 1))
    \o htmlStyleLinks(execAll("anchorUrl", b, lb, 1))
    \o displayPatternLinks(execAll("wwwPath", b, lb, 1))
    \o displayPatternLinks(execAll("domainPath", b, lb, 1))
    \o markdownLinks(execAll("markdown", b, lb, 1)))

\* `"${link.display}" -> ${link.actual}` (the source prints a Unicode arrow)
linkDescription(link) == "\"" \o link.display \o "\" -> " \o link.actual

\* the deceptive-link scoring without the push to suspiciousElements
deceptiveLinkDetector_findingOnly(st, b) ==
  With(deceptiveLinksOf(b), LAMBDA deceptiveLinks :
  With(Len(deceptiveLinks), LAMBDA n :
    IF n > 0
    THEN PushDetail(AddScore(st, Min(25, n * 15)),
           "Deceptive links detected (display text != actual URL): "
             \o join([k \in 1..Min(3, n) |-> linkDescription(deceptiveLinks[k])], ", ")
             \o (IF n > 3 THEN " and " \o ToString(n - 3) \o " more" ELSE ""))
    ELSE st))

\* lines 892-899
deceptiveLinkDetector(st, b) ==
  With(deceptiveLinksOf(b), LAMBDA deceptiveLinks :
  With(Len(deceptiveLinks), LAMBDA n :
    IF n > 0
    THEN PushSuspicious(
           PushDetail(AddScore(st, Min(25, n * 15)),
             "Deceptive links detected (display text != actual URL): "
               \o join([k \in 1..Min(3, n) |-> linkDescription(deceptiveLinks[k])], ", ")
               \o (IF n > 3 THEN " and " \o ToString(n - 3) \o " more" ELSE "")),
           [k \in 1..n |-> deceptiveLinks[k].actual])
    ELSE st))

(***************************************************************************)
(* Generic-greeting detector (lines 901-926)                               *)
(***************************************************************************)
WsCls == Cls(SpaceSet)
DearHelloHi == Alt(<<Lit("dear"), Lit("hello"), Lit("hi")>>)

genericGreetingPatterns == <<
  \* /^\s*(dear|hello|hi|greetings|good\s+(morning|afternoon|evening)|attention|
  \*   to whom it may concern|valued customer|dear (customer|...))(\s+[^\s,]+)?[,\s]*$/i
  Cat(<<Bol, Star(WsCls),
        Alt(<<Lit("dear"), Lit("hello"), Lit("hi"), Lit("greetings"),
              Cat(<<Lit("good"), Plus(WsCls), Alt(<<Lit("morning"), Lit("afternoon"), Lit("evening")>>)>>),
              Lit("attention"), Lit("to whom it may concern"), Lit("valued customer"),
              Cat(<<Lit("dear "),
                    Alt(<<Lit("customer"), Lit("user"), Lit("sir"), Lit("madam"), Lit("sir/madam"),
                          Lit("account holder"), Lit("client"), Lit("member"), Lit("valued member"),
                          Lit("valued client"), Lit("account team"), Lit("support team"), Lit("it team"),
                          Lit("security team"), Lit("billing department"), Lit("payroll"), Lit("hr"),
                          Lit("human resources"), Lit("administrator")>>)>>)>>),
        Opt(Cat(<<Plus(WsCls), Plus(NCls(SpaceSet \cup {","}))>>)),
        Star(Cls(SpaceSet \cup {","})), Eol>>),
  \* /^\s*(dear|hello|hi)\s+[a-z0-9._%+-]+@[a-z0-9.-]+\.[a-z]{2,}\s*,?\s*$/i
  Cat(<<Bol, Star(WsCls), DearHelloHi, Plus(WsCls),
        Plus(Cls(LowerSet \cup DigitSet \cup {".", "_", "%", "+", "-"})), Lit("@"),
        Plus(Cls(LowerSet \cup DigitSet \cup {".", "-"})), Lit("."), AtLeast(2, Cls(LowerSet)),
        Star(WsCls), Opt(Lit(",")), Star(WsCls), Eol>>),
  \* /^\s*(dear|hello|hi)\s+[a-z]+\s*[0-9]+/i
  Cat(<<Bol, Star(WsCls), DearHelloHi, Plus(WsCls), Plus(Cls(LowerSet)), Star(WsCls), Plus(Cls(DigitSet))>>),
  \* /^\s*(dear|hello|hi)\s+[a-z]+\s*(department|team|support|helpdesk)/i
  Cat(<<Bol, Star(WsCls), DearHelloHi, Plus(WsCls), Plus(Cls(LowerSet)), Star(WsCls),
        Alt(<<Lit("department"), Lit("team"), Lit("support"), Lit("helpdesk")>>)>>)
  >>

\* genericGreetingPatterns.some(pattern => pattern.test(line)), line already lowercase
isGreetingLine(line) == \E k \in 1..Len(genericGreetingPatterns) : test(genericGreetingPatterns[k], line)

\* detectedGreeting.substring(0, 30) + (length > 30 ? '...' : '')
greetingExcerpt(g) == SubSeq(g, 1, Min(30, Len(g))) \o (IF Len(g) > 30 THEN "..." ELSE "")

\* the line the greeting was detected on, or none
detectedGreetingOf(bodyLines) ==
  With(trim(bodyLines[1]), LAMBDA firstLine :
    IF isGreetingLine(firstLine) THEN [found |-> TRUE, line |-> firstLine]
    ELSE IF Len(bodyLines) > 1
    THEN With(trim(bodyLines[2]), LAMBDA secondLine :
           IF isGreetingLine(secondLine) THEN [found |-> TRUE, line |-> secondLine] ELSE NoMatch)
    ELSE NoMatch)

greetingDetector(st, b) ==
  With(detectedGreetingOf(split(toLowerCase(b), "\n")), LAMBDA detectedGreeting :
    IF detectedGreeting.found
    THEN PushDetail(AddScore(st, 10),
           "Generic/impersonal greeting detected: \"" \o greetingExcerpt(detectedGreeting.line) \o "\"")
    ELSE st)

(***************************************************************************)
(* Sender-domain detector (lines 928-961)                                  *)
(***************************************************************************)
HexSet == CharsOf("abcdef") \cup DigitSet

\* the patterns with the i flag, in lowercase
suspiciousDomainPatternsI == <<
  \* /^[a-f0-9]+\.(com|net|org)$/i
  Cat(<<Bol, Plus(Cls(HexSet)), Lit("."), Alt(<<Lit("com"), Lit("net"), Lit("org")>>), Eol>>),
  \* /^mail\d*\./i, /^smtp\d*\./i
  Cat(<<Bol, Lit("mail"), Star(Cls(DigitSet)), Lit(".")>>),
  Cat(<<Bol, Lit("smtp"), Star(Cls(DigitSet)), Lit(".")>>),
  \* /^no[-_]?reply\b/i
  Cat(<<Bol, Lit("no"), Opt(Cls({"-", "_"})), Lit("reply"), Wb>>),
  Cat(<<Bol, Lit("notification")>>),
  Cat(<<Bol, Lit("alert")>>),
  Cat(<<Bol, Lit("security")>>),
  Cat(<<Bol, Lit("update")>>),
  Cat(<<Bol, Lit("verify")>>),
  Cat(<<Bol, Lit("account")>>),
  Cat(<<Bol, Lit("service")>>),
  Cat(<<Bol, Lit("support")>>),
  Cat(<<Bol, Lit("billing")>>),
  Cat(<<Bol, Lit("payment")>>),
  \* /^corp[-_]?internal/i
  Cat(<<Bol, Lit("corp"), Opt(Cls({"-", "_"})), Lit("internal")>>)
  >>

\* /^[0-9]{1,3}\.[0-9]{1,3}\.[0-9]{1,3}\.[0-9]{1,3}$/ (no i flag)
ipv4Pattern ==
  LET octet == Between(1, 3, Cls(DigitSet))
  IN Cat(<<Bol, octet, Lit("."), octet, Lit("."), octet, Lit("."), octet, Eol>>)

\* header.from.split('@')[1] || ''
senderDomainOf(from) ==
  With(split(from, "@"), LAMBDA parts : IF Len(parts) >= 2 THEN parts[2] ELSE "")

\* lines 950-953
isSuspiciousDomain(senderDomain) ==
  \/ \E k \in 1..Len(suspiciousDomainPatternsI) : testI(suspiciousDomainPatternsI[k], senderDomain)
  \/ test(ipv4Pattern, senderDomain)
  \/ With(split(senderDomain, "."), LAMBDA parts : \E k \in 1..Len(parts) : Len(parts[k]) > 30)

\* senderDomainDetector with the two checks made one after the other
senderDomainDetector_both(st, from) ==
  With(senderDomainOf(from), LAMBDA senderDomain :
  With(IF isSuspiciousDomain(senderDomain)
       THEN PushDetail(AddScore(st, 15), "Suspicious sender domain pattern: " \o senderDomain)
       ELSE st, LAMBDA s1 :
    IF \E k \in 1..Len(suspiciousDomains) : includes(senderDomain, suspiciousDomains[k])
    THEN PushDetail(AddScore(s1, 10), "Suspicious sender domain: " \o senderDomain)
    ELSE s1))

senderDomainDetector(st, from) ==
  With(senderDomainOf(from), LAMBDA senderDomain :
    IF isSuspiciousDomain(senderDomain)
    THEN PushDetail(AddScore(st, 15), "Suspicious sender domain pattern: " \o senderDomain)
    ELSE IF \E k \in 1..Len(suspiciousDomains) : includes(senderDomain, suspiciousDomains[k])
    THEN PushDetail(AddScore(st, 10), "Suspicious sender domain: " \o senderDomain)
    ELSE st)

(***************************************************************************)
(* Sender/link domain-mismatch detector (lines 963-985)                    *)
(***************************************************************************)
\* domainsInBody: group 1 of every match, in order
domainsInBody(lb) ==
  With(execAll("linkDomain", lb, lb, 1), LAMBDA ms : [k \in 1..Len(ms) |-> ms[k].g1])

\* notEndingWith keeping every domain that is not the sender's domain itself
RECURSIVE notEndingWith_notEqual(_, _)
notEndingWith_notEqual(ds, domain) ==
  IF Len(ds) = 0 THEN <<>>
  ELSE (IF ds[1] = domain THEN <<>> ELSE <<ds[1]>>) \o notEndingWith_notEqual(Tail(ds), domain)

\* uniqueDomains.filter(d => !d.endsWith(domain))
RECURSIVE notEndingWith(_, _)
notEndingWith(ds, domain) ==
  IF Len(ds) = 0 THEN <<>>
  ELSE (IF endsWith(ds[1], domain) THEN <<>> ELSE <<ds[1]>>) \o notEndingWith(Tail(ds), domain)

mismatchDetector(st, lowerBody, from) ==
  IF from # "" /\ includes(from, "@")
  THEN With(toLowerCase(split(from, "@")[2]), LAMBDA domain :
       With(unique(domainsInBody(lowerBody)), LAMBDA uniqueDomains :
       With(notEndingWith(uniqueDomains, domain), LAMBDA mismatches :
         IF Len(mismatches) > 0
         THEN PushSuspicious(
                PushDetail(AddScore(st, Min(25, Len(mismatches) * 5)),
                  "Links point to domains that differ from sender (" \o join(mismatches, ", ") \o ")"),
                mismatches)
         ELSE st)))
  ELSE st

(***************************************************************************)
(* Shouting / punctuation detector (lines 987-1003)                        *)
(***************************************************************************)
\* lines.forEach(line => { if (line.trim() && line === line.toUpperCase() && line.length > 10) shoutCount++ })
shoutCountOf(lines) ==
  Cardinality({k \in 1..Len(lines) :
    trim(lines[k]) # "" /\ lines[k] = toUpperCase(lines[k]) /\ Len(lines[k]) > 10})

shoutingDetector(st, b) ==
  With(Cardinality({i \in 1..Len(b) : CharAt(b, i) = "!"}), LAMBDA exclamations :
  With(shoutCountOf(splitNewlines(b)), LAMBDA shoutCount :
  With(IF exclamations > 3 THEN PushDetail(AddScore(st, 5), "Contains many exclamation marks") ELSE st,
       LAMBDA s1 :
    IF shoutCount > 0 THEN PushDetail(AddScore(s1, 5), "Contains all-caps sentences") ELSE s1)))

(***************************************************************************)
(* Authentication detector (lines 1005-1058)                               *)
(***************************************************************************)
\* auth.<p> && auth.<p>.status === v
\* the comparison with the status value dropped
hasStatus_anyValue(auth, p, v) == p \in DOMAIN auth

\* hasStatus taking 'neutral' for a failure
hasStatus_neutralFails(auth, p, v) ==
  p \in DOMAIN auth /\ (auth[p].status = v \/ (v = "fail" /\ auth[p].status = "neutral"))

hasStatus(auth, p, v) == p \in DOMAIN auth /\ auth[p].status = v

\* the pass discount without its Math.max(0, ...) floor
authCheck_unfloored(a, auth, p, name, weight, discount) ==
  IF p \in DOMAIN auth /\ auth[p].status = "fail"
  THEN [st |-> AddScore(a.st, weight),
        authFailures |-> a.authFailures + 1,
        authDetails |-> Append(a.authDetails, name \o " authentication failed")]
  ELSE IF p \in DOMAIN auth /\ auth[p].status = "pass"
  THEN [st |-> SetScore(a.st, a.st.score - discount),
        authFailures |-> a.authFailures,
        authDetails |-> Append(a.authDetails, name \o " authentication passed")]
  ELSE a

\* one of the DKIM / SPF / DMARC checks; a = [st, authFailures, authDetails]
authCheck(a, auth, p, name, weight, discount) ==
  IF hasStatus(auth, p, "fail")
  THEN [st |-> AddScore(a.st, weight),
        authFailures |-> a.authFailures + 1,
        authDetails |-> Append(a.authDetails, name \o " authentication failed")]
  ELSE IF hasStatus(auth, p, "pass")
  THEN [st |-> SetScore(a.st, Max(0, a.st.score - discount)),
        authFailures |-> a.authFailures,
        authDetails |-> Append(a.authDetails, name \o " authentication passed")]
  ELSE a

\* authDetector with the weights of DKIM and SPF exchanged
authDetector_swappedWeights(st, h) ==
  IF "authentication" \in DOMAIN h
  THEN With(h.authentication, LAMBDA auth :
       With(authCheck(
              authCheck(
                authCheck([st |-> st, authFailures |-> 0, authDetails |-> <<>>],
                          auth, "dkim", "DKIM", 12, 2),
                auth, "spf", "SPF", 15, 2),
              auth, "dmarc", "DMARC", 18, 3), LAMBDA a3 :
       With(IF a3.authFailures >= 2
            THEN PushDetail(AddScore(a3.st, 10),
                   "Multiple authentication failures (" \o ToString(a3.authFailures) \o ")")
            ELSE a3.st, LAMBDA s4 :
       With([s4 EXCEPT !.details = @ \o a3.authDetails], LAMBDA s5 :
         IF a3.authFailures >= 3
         THEN PushDetail(AddScore(s5, 15), "All email authentication methods failed - high phishing risk")
         ELSE s5))))
  ELSE st

authDetector(st, h) ==
  IF "authentication" \in DOMAIN h
  THEN With(h.authentication, LAMBDA auth :
       With(authCheck(
              authCheck(
                authCheck([st |-> st, authFailures |-> 0, authDetails |-> <<>>],
                          auth, "dkim", "DKIM", 15, 2),
                auth, "spf", "SPF", 12, 2),
              auth, "dmarc", "DMARC", 18, 3), LAMBDA a3 :
       With(IF a3.authFailures >= 2
            THEN PushDetail(AddScore(a3.st, 10),
                   "Multiple authentication failures (" \o ToString(a3.authFailures) \o ")")
            ELSE a3.st, LAMBDA s4 :
       With([s4 EXCEPT !.details = @ \o a3.authDetails], LAMBDA s5 :
         IF a3.authFailures >= 3
         THEN PushDetail(AddScore(s5, 15), "All email authentication methods failed - high phishing risk")
         ELSE s5))))
  ELSE st

(***************************************************************************)
(* computeHeuristics (lines 700-1064).  A header without `from` makes      *)
(* header.from.split raise at line 929: the call returns nothing.          *)
(***************************************************************************)
\* lines 757-926: the detectors that read only the body
bodyDetectors(b) ==
  With(toLowerCase(b), LAMBDA lowerBody :
    greetingDetector(
      deceptiveLinkDetector(
        linkCountDetector(
          keywordDetector(EmptyRun, lowerBody), lowerBody), b), b))

\* lines 928-1003: sender domain, sender/link mismatch, shouting
senderDetectors(st, b, from) ==
  shoutingDetector(mismatchDetector(senderDomainDetector(st, from), toLowerCase(b), from), b)

\* lines 1005-1063: authentication, cap, return
authAndReturn(st, h) ==
  With(authDetector(st, h), LAMBDA s1 :
  With(SetScore(s1, Min(70, s1.score)), LAMBDA s2 :
    [threw |-> FALSE, score |-> s2.score, details |-> s2.details,
     suspiciousElements |-> s2.suspiciousElements, trace |-> s2.trace]))

\* lines 928-1003 after the body detectors left the running state st;
\* header.from.split raises when the header has no `from`
beforeAuth(st, b, h) ==
  IF "from" \notin DOMAIN h
  THEN [threw |-> TRUE, trace |-> st.trace]
  ELSE [threw |-> FALSE, st |-> senderDetectors(st, b, h.from)]

\* lines 1005-1063 after the call reached `pre`
afterAuth(pre, h) == IF pre.threw THEN pre ELSE authAndReturn(pre.st, h)

computeHeuristics(b, h) == afterAuth(beforeAuth(bodyDetectors(b), b, h), h)

(***************************************************************************)
(* Inputs of the function-level specifications                             *)
(***************************************************************************)
MaxLines == 2

Fragments == {
  "Hi John, thanks for the meeting today.",
  "URGENT: act now!!!!",
  "please verify your account",
  "Dear Customer,",
  "http://microsoft-office.com",
  "www.joby.aero/sharepoint/2025NewPolicy",
  "PayPal.com/login",
  "[paypal.com](http://evil.example.net/login)",
  "http://a.io/x http://b.io http://www.company.com/y",
  "www.paypal.com <a href=\"http://evil.example.net/x\">"
  }

RECURSIVE LinesUpTo(_)
LinesUpTo(n) ==
  IF n = 0 THEN {<<>>}
  ELSE LET S == LinesUpTo(n - 1)
       IN S \cup {Append(ls, f) : ls \in S, f \in Fragments}

Bodies == {join(ls, "\n") : ls \in LinesUpTo(MaxLines)}

Froms == {"", "colleague", "colleague@company.com", "fake-support@scam.com", "x@mail1.paypal.com.security.login.com"}

AuthStatuses == {"pass", "fail", "neutral", "unknown"}

Authentications == [dkim : [status : AuthStatuses], spf : [status : AuthStatuses], dmarc : [status : AuthStatuses]]

\* the header object before `authentication` is attached: {} or {from}
HeaderFroms == {<<>>} \cup [from : Froms]

\* the headers that extend hf: without and with an authentication object
WithAuthentication(hf) == {hf} \cup {hf @@ [authentication |-> a] : a \in Authentications}

(***************************************************************************)
(* JavaScript values of the score arithmetic: integers, NaN, the           *)
(* infinities, undefined and a numeric string such as "85"                 *)
(***************************************************************************)
Num(n) == [t |-> "number", v |-> n]
NaN == [t |-> "NaN", v |-> 0]
PosInfinity == [t |-> "Infinity", v |-> 0]
NegInfinity == [t |-> "-Infinity", v |-> 0]
Undefined == [t |-> "undefined", v |-> 0]
StringValue == [t |-> "string", v |-> 0]

typeof(x) == IF x.t \in {"number", "NaN", "Infinity", "-Infinity"} THEN "number" ELSE x.t
\* the global isNaN: undefined converts to NaN, a numeric string to its number
isNaN(x) == x.t \in {"NaN", "undefined"}
isFinite(x) == x.t = "number"

\* Math.round((heuristics * 0.4) + (llm * 0.6)) for a finite heuristics:
\* the sum of an integer h and an integer r is (4h + 6r)/10, rounded half up;
\* with an infinite llm the sum and its rounding are that infinity
weightedRound(heuristics, llm) ==
  IF llm.t = "number"
  THEN Num((4 * heuristics.v + 6 * llm.v + 5) \div 10)
  ELSE llm

\* the 40/60 weights exchanged
combineScores_swapped(heuristics, llm) ==
  IF typeof(llm) # "number" \/ isNaN(llm) THEN heuristics
  ELSE IF llm.t = "number" THEN Num((6 * heuristics.v + 4 * llm.v + 5) \div 10) ELSE llm

\* lines 1083-1087
combineScores(heuristics, llm) ==
  IF typeof(llm) # "number" \/ isNaN(llm) THEN heuristics
  ELSE weightedRound(heuristics, llm)

\* line 1537: Math.min(100, Math.round((heuristics.score / 120) * 100)).
\* In double arithmetic 69/120*100 is 57.49999999999999 and rounds down;
\* every other integer score in 0..200 rounds like the exact quotient.
\* normalizedHeuristicOf scaled by the cap of 70 in place of 120
normalizedHeuristicOf_by70(score) == Min(100, (score * 100 + 35) \div 70)

normalizedHeuristicOf(score) ==
  IF score = 69 THEN 57 ELSE Min(100, (score * 100 + 60) \div 120)

\* finalScoreOf taking a missing remote score for a remote score of 0
finalScoreOf_nanAsZero(score, llmScore) ==
  weightedRound(Num(normalizedHeuristicOf(score)),
                IF typeof(llmScore) = "number" /\ ~isNaN(llmScore) THEN llmScore ELSE Num(0))

\* lines 1540-1542
finalScoreOf(score, llmScore) ==
  IF typeof(llmScore) = "number" /\ ~isNaN(llmScore)
  THEN combineScores(Num(normalizedHeuristicOf(score)), llmScore)
  ELSE Num(normalizedHeuristicOf(score))

\* Number to string, as in a template literal
numberToString(x) == IF x.t = "number" THEN ToString(x.v) ELSE x.t

(***************************************************************************)
(* State                                                                   *)
(***************************************************************************)
VARIABLES
  pc,            \* position of the content script
  body,          \* emailBody of the call / analysis in progress
  header,        \* header of the call / analysis in progress
  result,        \* what computeHeuristics returned (heuristics)
  prev,          \* result of the preceding call, for comparing two calls
  args,          \* arguments of the last combineScores call
  ret,           \* what it returned
  container,     \* the message container Gmail rendered
  analyzedFlag,  \* its data-phishing-analyzed attribute
  safeFlag,      \* its data-phishing-safe attribute
  banners,       \* the .phishing-indicator elements inserted into it
  safeList,      \* the in-memory safe list
  cfg,           \* chrome.storage.sync
  bg,            \* the background worker's handling of an analyzeEmail message
  response,      \* what the background worker passed to sendResponse
  calls          \* what the analyseMessage calls on the container did so far

vars == <<pc, body, header, result, prev, args, ret, container, analyzedFlag,
          safeFlag, banners, safeList, cfg, bg, response, calls>>

callVars == <<pc, body, header, result, prev>>
scoreVars == <<args, ret>>
pageVars == <<container, analyzedFlag, safeFlag, banners, safeList, calls>>
workerVars == <<cfg, bg, response>>

NoResult == [threw |-> FALSE, score |-> 0, details |-> <<>>, suspiciousElements |-> <<>>, trace |-> <<>>]
NoContainer == [present |-> FALSE, messageId |-> "", hasBodyEl |-> FALSE, bodyText |-> "",
                hasFromEl |-> FALSE, fromEmail |-> "", authElements |-> <<>>, warningElements |-> <<>>,
                links |-> <<>>]
NoConfig == [enableAI |-> "unset", apiEndpoint |-> "", apiKey |-> "", endpointType |-> "unset"]
NoResponse == [kind |-> "none", error |-> "", score |-> Undefined, explanation |-> ""]
IdleWorker == [stage |-> "idle", sendResponses |-> 0, fetches |-> 0, cfg |-> NoConfig]

\* entered: the calls of analyseMessage for the container, counted up to
\* MaxCalls; awaiting: the calls suspended at the await of line 1511;
\* heuristics, requests, finishes: how often computeHeuristics, sendMessage
\* and finishWithScore were called for the container
NoCalls == [entered |-> 0, awaiting |-> 0, heuristics |-> 0, requests |-> 0, finishes |-> 0]
MaxCalls == 2

\* what the earlier options page stored: endpoint and key, no enableAI
LegacyConfig == [enableAI |-> "unset", apiEndpoint |-> "https://api.example.com/v1/chat/completions",
                 apiKey |-> "sk-key", endpointType |-> "unset"]

\* the content script is loaded and has read the persisted safe list; no
\* message is rendered yet
Init ==
  /\ pc = "idle"
  /\ body = ""
  /\ header = <<>>
  /\ result = NoResult
  /\ prev = NoResult
  /\ args = <<>>
  /\ ret = Undefined
  /\ container = NoContainer
  /\ analyzedFlag = FALSE
  /\ safeFlag = FALSE
  /\ banners = <<>>
  /\ safeList \in {<<>>, <<"m1">>}
  /\ cfg \in {NoConfig, LegacyConfig}
  /\ bg = IdleWorker
  /\ response = NoResponse
  /\ calls = NoCalls

\* the functions called on their own: nothing stored, nothing rendered
InitCalls == Init /\ safeList = <<>> /\ cfg = NoConfig

(***************************************************************************)
(* SpecHeuristics: computeHeuristics applied to every bounded input        *)
(***************************************************************************)
\* one call computeHeuristics(body, header); the result is
\* computeHeuristics(b, h), each prefix of the function being evaluated once
\* for all the inputs that share it
CallComputeHeuristics ==
  /\ pc = "idle"
  /\ \E b \in Bodies : \E st \in {bodyDetectors(b)} :
       \E hf \in HeaderFroms : \E pre \in {beforeAuth(st, b, hf)} :
         \E h \in WithAuthentication(hf) :
           /\ body' = b
           /\ header' = h
           /\ result' = afterAuth(pre, h)
  /\ pc' = "returned"
  /\ UNCHANGED <<prev, scoreVars, pageVars, workerVars>>

\* the caller drops the result; the function kept nothing
Forget ==
  /\ pc = "returned"
  /\ pc' = "idle"
  /\ body' = ""
  /\ header' = <<>>
  /\ result' = NoResult
  /\ UNCHANGED <<prev, scoreVars, pageVars, workerVars>>

NextHeuristics == CallComputeHeuristics \/ Forget

SpecHeuristics == InitCalls /\ [][NextHeuristics]_vars

(***************************************************************************)
(* SpecKeywords: computeHeuristics applied to bodies made of lines that    *)
(* hold none, one or several keywords of each category                     *)
(***************************************************************************)
KeywordLines == <<
  "Hi John, thanks for the meeting today.",
  "URGENT: act now before the deadline",
  "please verify and confirm, then update",
  "your password and account are locked",
  "bank payment invoice",
  "click here",
  "PayPal">>

RECURSIVE linesOf(_, _)
\* the lines of KeywordLines whose index is in S, from line k on, in order
linesOf(S, k) ==
  IF k > Len(KeywordLines) THEN <<>>
  ELSE (IF k \in S THEN <<KeywordLines[k]>> ELSE <<>>) \o linesOf(S, k + 1)

KeywordBodies == {join(linesOf(S, 1), "\n") : S \in SUBSET (1..Len(KeywordLines))}
KeywordFroms == {"colleague@company.com", "fake-support@scam.com"}

CallOnKeywords ==
  /\ pc = "idle"
  /\ \E b \in KeywordBodies : \E hf \in [from : KeywordFroms] :
       /\ body' = b
       /\ header' = hf
       /\ result' = computeHeuristics(b, hf)
  /\ pc' = "returned"
  /\ UNCHANGED <<prev, scoreVars, pageVars, workerVars>>

NextKeywords == CallOnKeywords \/ Forget

SpecKeywords == InitCalls /\ [][NextKeywords]_vars

(***************************************************************************)
(* SpecLinks: computeHeuristics applied to bodies that hold links: an      *)
(* anchor or a markdown link with a display text and a destination, or     *)
(* plain URLs                                                              *)
(***************************************************************************)
DisplayTexts ==
  {"paypal.com", "www.paypal.com", "mail.paypal.com", "http://paypal.com",
   "http://example.org/login", "visit example.org now"}
LinkHosts == {"paypal.com", "www.paypal.com", "evil.example.net", "example.org", "login.example.org"}
anchorBody(t, h) == t \o " <a href=\"http://" \o h \o "/x\">"
markdownBody(t, h) == "[" \o t \o "](http://" \o h \o "/login)"
urlsBody(h1, h2) == "http://" \o h1 \o "/x http://" \o h2 \o "/y"
LinkBodies ==
  {anchorBody(t, h) : t \in DisplayTexts, h \in LinkHosts}
  \cup {markdownBody(t, h) : t \in DisplayTexts, h \in LinkHosts}
  \cup {urlsBody(h1, h2) : h1 \in LinkHosts, h2 \in LinkHosts}
  \cup {"http://a.io http://b.io http://c.io http://d.io http://e.io http://f.io"}
LinkFroms == {"colleague", "billing@PayPal.com", "x@example.org"}

CallOnLinks ==
  /\ pc = "idle"
  /\ \E b \in LinkBodies : \E hf \in [from : LinkFroms] :
       /\ body' = b
       /\ header' = hf
       /\ result' = computeHeuristics(b, hf)
  /\ pc' = "returned"
  /\ UNCHANGED <<prev, scoreVars, pageVars, workerVars>>

NextLinks == CallOnLinks \/ Forget

SpecLinks == InitCalls /\ [][NextLinks]_vars

(***************************************************************************)
(* SpecSender: computeHeuristics applied to senders of every kind: no      *)
(* '@', nothing after the '@', a plain domain, a domain of the lookalike   *)
(* list, a domain matching a structural pattern, and one matching both     *)
(***************************************************************************)
SenderFroms ==
  {"", "colleague", "support", "microsoft-office.com", "a@", "colleague@company.com",
   "x@microsoft-office.com", "x@login.microsoft-office.com.evil.net",
   "x@mail1.paypal.com.security.login.com", "x@deadbeef.com", "x@10.0.0.1",
   "x@Support.example.org", "x@zzzzzzzzzzzzzzzzzzzzzzzzzzzzzzz.io"}
SenderBodies ==
  {"", "Hi John, thanks for the meeting today.", "URGENT: act now!!!!",
   "please verify your account", "Dear Customer,", "http://microsoft-office.com",
   "PayPal.com/login", "http://a.io/x http://b.io http://www.company.com/y",
   "www.paypal.com <a href=\"http://evil.example.net/x\">"}

CallOnSenders ==
  /\ pc = "idle"
  /\ \E b \in SenderBodies : \E hf \in [from : SenderFroms] :
       /\ body' = b
       /\ header' = hf
       /\ result' = computeHeuristics(b, hf)
  /\ pc' = "returned"
  /\ UNCHANGED <<prev, scoreVars, pageVars, workerVars>>

NextSender == CallOnSenders \/ Forget

SpecSender == InitCalls /\ [][NextSender]_vars

(***************************************************************************)
(* SpecMonotone: computeHeuristics called on a body and on the same body   *)
(* with one urgent keyword added as a line of its own, same header         *)
(***************************************************************************)
MonotoneBodies == {""} \cup Fragments
MonotoneFroms == {"colleague@company.com", "fake-support@scam.com"}
MonotoneStatuses == {"pass", "fail", "unknown"}
MonotoneAuthentications ==
  [dkim : [status : MonotoneStatuses], spf : [status : MonotoneStatuses],
   dmarc : [status : MonotoneStatuses]]

\* the body with one more line before or after it, or with the text appended
\* to its last line
withLine(b, line, where) ==
  IF b = "" THEN line
  ELSE IF where = "after" THEN b \o "\n" \o line
  ELSE IF where = "inline" THEN b \o " " \o line
  ELSE line \o "\n" \o b

CallTwice ==
  /\ pc = "idle"
  /\ \E b \in MonotoneBodies : \E st1 \in {bodyDetectors(b)} :
       \E k \in 1..Len(urgentKeywords) : \E where \in {"before", "after", "inline"} :
         \E b2 \in {withLine(b, urgentKeywords[k], where)} : \E st2 \in {bodyDetectors(b2)} :
           \E hf \in [from : MonotoneFroms] :
             \E pre1 \in {beforeAuth(st1, b, hf)} : \E pre2 \in {beforeAuth(st2, b2, hf)} :
               \E h \in {hf} \cup {hf @@ [authentication |-> a] : a \in MonotoneAuthentications} :
                 /\ body' = b2
                 /\ header' = h
                 /\ prev' = afterAuth(pre1, h)
                 /\ result' = afterAuth(pre2, h)
  /\ pc' = "returnedTwice"
  /\ UNCHANGED <<scoreVars, pageVars, workerVars>>

ForgetBoth ==
  /\ pc = "returnedTwice"
  /\ pc' = "idle"
  /\ body' = ""
  /\ header' = <<>>
  /\ result' = NoResult
  /\ prev' = NoResult
  /\ UNCHANGED <<scoreVars, pageVars, workerVars>>

NextMonotone == CallTwice \/ ForgetBoth

SpecMonotone == InitCalls /\ [][NextMonotone]_vars

(***************************************************************************)
(* SpecAuthentication: computeHeuristics called on a header without an     *)
(* authentication object and on the same header with one, same body        *)
(***************************************************************************)
CallWithAuthentication ==
  /\ pc = "idle"
  /\ \E b \in MonotoneBodies : \E st \in {bodyDetectors(b)} :
       \E hf \in HeaderFroms : \E pre \in {beforeAuth(st, b, hf)} :
         \E a \in Authentications :
           /\ body' = b
           /\ header' = hf @@ [authentication |-> a]
           /\ prev' = afterAuth(pre, hf)
           /\ result' = afterAuth(pre, header')
  /\ pc' = "returnedBoth"
  /\ UNCHANGED <<scoreVars, pageVars, workerVars>>

ForgetAuthentication ==
  /\ pc = "returnedBoth"
  /\ pc' = "idle"
  /\ body' = ""
  /\ header' = <<>>
  /\ result' = NoResult
  /\ prev' = NoResult
  /\ UNCHANGED <<scoreVars, pageVars, workerVars>>

NextAuthentication == CallWithAuthentication \/ ForgetAuthentication

SpecAuthentication == InitCalls /\ [][NextAuthentication]_vars

(***************************************************************************)
(* SpecCombine: combineScores applied to a normalized heuristic score and  *)
(* every kind of remote score                                              *)
(***************************************************************************)
LlmValues ==
  {Num(n) : n \in 0..100} \cup
  {Num(0 - 20), Num(150), NaN, PosInfinity, NegInfinity, Undefined, StringValue}

CallCombineScores ==
  /\ pc = "idle"
  /\ \E h \in 0..100 : \E llm \in LlmValues :
       /\ args' = <<Num(h), llm>>
       /\ ret' = combineScores(Num(h), llm)
  /\ pc' = "combined"
  /\ UNCHANGED <<body, header, result, prev, pageVars, workerVars>>

ForgetCombined ==
  /\ pc = "combined"
  /\ pc' = "idle"
  /\ args' = <<>>
  /\ ret' = Undefined
  /\ UNCHANGED <<body, header, result, prev, pageVars, workerVars>>

NextCombine == CallCombineScores \/ ForgetCombined

SpecCombine == InitCalls /\ [][NextCombine]_vars

(***************************************************************************)
(* extractAuthenticationResults (lines 1325-1431)                          *)
(***************************************************************************)
firstIndex(S) == IF S = {} THEN 0 ELSE CHOOSE i \in S : \A j \in S : i <= j

NoGroups == [found |-> FALSE, status |-> "", details |-> ""]

\* text.match(/<key>=([a-z]+)(?:\s*\(([^)]+)\))?/i): groups 1 and 2 of the
\* leftmost match
matchKeyEquals(text, key) ==
  With(toLowerCase(text), LAMBDA lt :
  With(firstIndex({i \in 1..Len(text) :
         /\ MatchAt(lt, i, key \o "=")
         /\ i + Len(key) + 1 <= Len(text)
         /\ CharAt(text, i + Len(key) + 1) \in LetterSet}), LAMBDA k :
    IF k = 0 THEN NoGroups
    ELSE With(k + Len(key) + 1, LAMBDA st :
         With(RunEnd(text, st, LetterSet), LAMBDA en :
         With(RunEnd(text, en, SpaceSet), LAMBDA j :
         With(FindChar(text, j + 1, {")"}), LAMBDA c :
           [found |-> TRUE,
            status |-> SubSeq(text, st, en - 1),
            details |-> IF j <= Len(text) /\ CharAt(text, j) = "(" /\ c <= Len(text) /\ c >= j + 2
                        THEN SubSeq(text, j + 1, c - 1) ELSE ""]))))))

\* text.match(/<key>\s+([a-z]+)/i)
\* position of the letter that follows the white space at sp, or 0
letterAfterSpace(text, sp) ==
  IF sp <= Len(text) /\ CharAt(text, sp) \in SpaceSet
  THEN With(RunEnd(text, sp, SpaceSet), LAMBDA st :
         IF st <= Len(text) /\ CharAt(text, st) \in LetterSet THEN st ELSE 0)
  ELSE 0

matchKeySpace(text, key) ==
  With(toLowerCase(text), LAMBDA lt :
  With(firstIndex({i \in 1..Len(text) :
         MatchAt(lt, i, key) /\ letterAfterSpace(text, i + Len(key)) # 0}), LAMBDA k :
    IF k = 0 THEN NoGroups
    ELSE With(letterAfterSpace(text, k + Len(key)), LAMBDA st :
           [found |-> TRUE, status |-> SubSeq(text, st, RunEnd(text, st, LetterSet) - 1), details |-> ""])))

dkimPatterns == <<[kind |-> "equals", key |-> "dkim"], [kind |-> "space", key |-> "dkim"],
                  [kind |-> "space", key |-> "domainkeys"]>>
spfPatterns == <<[kind |-> "equals", key |-> "spf"], [kind |-> "space", key |-> "spf"]>>
dmarcPatterns == <<[kind |-> "equals", key |-> "dmarc"], [kind |-> "space", key |-> "dmarc"]>>

\* for (const pattern of patterns) { match = authText.match(pattern); if (match) {...; break;} }
RECURSIVE firstPattern(_, _, _)
firstPattern(text, patterns, verdict) ==
  IF Len(patterns) = 0 THEN verdict
  ELSE With(IF patterns[1].kind = "equals" THEN matchKeyEquals(text, patterns[1].key)
            ELSE matchKeySpace(text, patterns[1].key), LAMBDA m :
         IF m.found THEN [status |-> toLowerCase(m.status), details |-> m.details]
         ELSE firstPattern(text, Tail(patterns), verdict))

RECURSIVE authTextOf(_)
authTextOf(els) ==
  IF Len(els) = 0 THEN "" ELSE " " \o toLowerCase(els[1]) \o authTextOf(Tail(els))

UnknownVerdict == [status |-> "unknown", details |-> ""]
allUnknown(r) == r.dkim.status = "unknown" /\ r.spf.status = "unknown" /\ r.dmarc.status = "unknown"
markIf(cond, r, p, v) == IF cond THEN [r EXCEPT ![p].status = v] ELSE r
markAll(r, text, v) ==
  markIf(includes(text, "dmarc"),
    markIf(includes(text, "spf"), markIf(includes(text, "dkim"), r, "dkim", v), "spf", v), "dmarc", v)

\* lines 1344-1408
parseAuthText(authText) ==
  With([dkim |-> firstPattern(authText, dkimPatterns, UnknownVerdict),
        spf |-> firstPattern(authText, spfPatterns, UnknownVerdict),
        dmarc |-> firstPattern(authText, dmarcPatterns, UnknownVerdict)], LAMBDA r :
    IF ~allUnknown(r) THEN r
    ELSE IF includes(authText, "failed") \/ includes(authText, "not authenticated")
    THEN markAll(r, authText, "fail")
    ELSE IF includes(authText, "pass") \/ includes(authText, "verified") \/ includes(authText, "signed")
    THEN markAll(r, authText, "pass")
    ELSE r)

\* if (results.<p>.status === 'unknown') results.<p>.status = 'fail', under a warning
failIfUnknown(warns, x, p) == markIf(warns /\ x[p].status = "unknown", x, p, "fail")

\* lines 1411-1423
RECURSIVE applyWarnings(_, _)
applyWarnings(r, els) ==
  IF Len(els) = 0 THEN r
  ELSE With(toLowerCase(els[1]), LAMBDA warningText :
       With(\/ includes(warningText, "suspicious") \/ includes(warningText, "phishing")
            \/ includes(warningText, "fraud") \/ includes(warningText, "scam"), LAMBDA warns :
         applyWarnings(
           failIfUnknown(warns, failIfUnknown(warns, failIfUnknown(warns, r, "dkim"), "spf"), "dmarc"),
           Tail(els))))

extractAuthenticationResults(c) ==
  With(authTextOf(c.authElements), LAMBDA authText :
    applyWarnings(
      IF authText # "" THEN parseAuthText(authText)
      ELSE [dkim |-> UnknownVerdict, spf |-> UnknownVerdict, dmarc |-> UnknownVerdict],
      c.warningElements))

(***************************************************************************)
(* finishWithScore (lines 1532-1633) and insertIndicator (lines 1109-1298) *)
(***************************************************************************)
\* score >= n for a JavaScript number
atLeast(score, n) ==
  \/ score.t = "number" /\ score.v >= n
  \/ score.t = "Infinity"

\* the banner is inserted unless the container already holds one
insertIndicator(bs, score, details, suspiciousElements) ==
  IF Len(bs) > 0 THEN bs
  ELSE <<[score |-> score,
          title |-> "Phishing Score: " \o numberToString(score) \o "/100",
          risk |-> IF atLeast(score, 80) THEN "high" ELSE IF atLeast(score, 40) THEN "moderate" ELSE "low",
          details |-> details,
          suspiciousElements |-> suspiciousElements]>>

\* lines 1564-1623, for an explanation that is not JSON text; "" is null
explanationDetails(llmScore, explanation) ==
  IF explanation # "" /\ trim(explanation) # ""
  THEN With(trim(explanation), LAMBDA t :
       With(IF startsWith(toLowerCase(t), "ai analysis:")
            THEN trim(SubSeq(t, 13, Len(t))) ELSE t, LAMBDA aiExplanation :
         IF aiExplanation # "" THEN <<"\nAI Analysis:\n" \o aiExplanation>> ELSE <<>>))
  ELSE IF explanation # "" /\ includes(explanation, "Error")
  THEN <<"\nAI Status: " \o explanation>>
  ELSE IF llmScore.t = "undefined" \/ isNaN(llmScore)
  THEN <<"AI Analysis: Not available">>
  ELSE <<>>

analysisDetailsOf(heuristics, llmScore, explanation) ==
  With(normalizedHeuristicOf(heuristics.score), LAMBDA normalizedHeuristic :
  With(finalScoreOf(heuristics.score, llmScore), LAMBDA finalScore :
    heuristics.details
    \o <<"Heuristic score: " \o ToString(heuristics.score)
         \o " (normalized: " \o ToString(normalizedHeuristic) \o ")">>
    \o (IF typeof(llmScore) = "number" /\ ~isNaN(llmScore)
        THEN <<"AI score: " \o numberToString(llmScore),
               "Final Score: " \o numberToString(finalScore) \o "/100 (combined)">>
        ELSE <<"Final Score: " \o numberToString(finalScore) \o "/100 (heuristics only)">>)
    \o explanationDetails(llmScore, explanation)))

\* the banners of the container after finishWithScore(llmScore, explanation)
finishWithScore(bs, heuristics, llmScore, explanation) ==
  insertIndicator(bs, finalScoreOf(heuristics.score, llmScore),
                  analysisDetailsOf(heuristics, llmScore, explanation),
                  heuristics.suspiciousElements)

(***************************************************************************)
(* highlightSuspiciousLinks (lines 1697-1720)                              *)
(***************************************************************************)
\* the authority of an http(s) URL: what follows the scheme up to the first
\* of / ? #
authorityOf(href, n) == SubSeq(href, n + 1, FindChar(href, n + 1, {"/", "?", "#"}) - 1)

\* the authority without its userinfo (what precedes the last @)
withoutUserinfo(authority) ==
  With({i \in 1..Len(authority) : CharAt(authority, i) = "@"}, LAMBDA ats :
    IF ats = {} THEN authority ELSE SubSeq(authority, MaxOf(ats) + 1, Len(authority)))

\* URL.host keeps the port unless it is the scheme's default one
withoutDefaultPort(hostport, n) ==
  With(IF n = 7 THEN ":80" ELSE ":443", LAMBDA defaultPort :
    IF endsWith(hostport, defaultPort)
    THEN SubSeq(hostport, 1, Len(hostport) - Len(defaultPort))
    ELSE hostport)

\* new URL(href) throws for a string without a scheme and for an http(s) URL
\* without a host; a mailto: URL parses and has no host
parsesAsUrl(href) ==
  With(trim(href), LAMBDA h :
  With(schemeLen(toLowerCase(h), 1), LAMBDA n :
    \/ n > 0 /\ withoutDefaultPort(withoutUserinfo(authorityOf(h, n)), n) # ""
    \/ startsWith(toLowerCase(h), "mailto:")))

\* try { new URL(href).host.toLowerCase() } catch { '' }
linkHostOf(href) ==
  With(trim(href), LAMBDA h :
  With(schemeLen(toLowerCase(h), 1), LAMBDA n :
    IF n > 0 /\ parsesAsUrl(href)
    THEN withoutDefaultPort(toLowerCase(withoutUserinfo(authorityOf(h, n))), n)
    ELSE ""))

\* anchorFlagged with the suffix test dropped: any non-empty list flags
anchorFlagged_anyDomain(a, flaggedDomains) ==
  IF a.href = "" THEN FALSE
  ELSE With(linkHostOf(a.href), LAMBDA linkHost :
       With(toLowerCase(trim(a.innerText)), LAMBDA text :
         \/ text # "" /\ includes(text, ".") /\ ~includes(text, linkHost)
         \/ Len(flaggedDomains) > 0))

\* the body of the forEach: hostMismatch || domainSuspicious; flaggedDomains
\* is the function's parameter suspiciousDomains
anchorFlagged(a, flaggedDomains) ==
  IF a.href = "" THEN FALSE
  ELSE With(linkHostOf(a.href), LAMBDA linkHost :
       With(toLowerCase(trim(a.innerText)), LAMBDA text :
         \/ text # "" /\ includes(text, ".") /\ ~includes(text, linkHost)
         \/ \E k \in 1..Len(flaggedDomains) : endsWith(linkHost, flaggedDomains[k])))

\* which of the anchors get the red dashed style
highlightSuspiciousLinks(anchors, flaggedDomains) ==
  [k \in 1..Len(anchors) |-> anchorFlagged(anchors[k], flaggedDomains)]

(***************************************************************************)
(* SpecHighlight: highlightSuspiciousLinks applied to the anchors of a     *)
(* body element and a list of suspicious domains                           *)
(***************************************************************************)
Hrefs ==
  {"", "/login", "paypal.com/login", "mailto:billing@paypal.com",
   "https://paypal.com/login", "https://PayPal.com:443/login",
   "http://paypal.com@scam.com/x", "https://login.microsoft-office.com:8443/a?b"}
InnerTexts ==
  {"", "Click here", "PayPal.com", " paypal.com ", "www.paypal.com/login", "scam.com"}
SuspiciousLists ==
  {<<>>, <<"microsoft-office.com">>, <<"paypal.com", "scam.com">>,
   <<"potentially deceptive link pattern">>}
AnchorInputs == [href : Hrefs, innerText : InnerTexts]
\* a second anchor of the same body element
SecondAnchors ==
  {[href |-> "http://paypal.com@scam.com/x", innerText |-> "PayPal.com"],
   [href |-> "https://paypal.com/login", innerText |-> "Click here"]}
AnchorLists ==
  {<<a>> : a \in AnchorInputs} \cup {<<a, b>> : a \in AnchorInputs, b \in SecondAnchors}

CallHighlight ==
  /\ pc = "idle"
  /\ \E anchors \in AnchorLists : \E doms \in SuspiciousLists :
       /\ args' = <<anchors, doms>>
       /\ ret' = highlightSuspiciousLinks(anchors, doms)
  /\ pc' = "highlighted"
  /\ UNCHANGED <<body, header, result, prev, pageVars, workerVars>>

ForgetHighlight ==
  /\ pc = "highlighted"
  /\ pc' = "idle"
  /\ args' = <<>>
  /\ ret' = Undefined
  /\ UNCHANGED <<body, header, result, prev, pageVars, workerVars>>

NextHighlight == CallHighlight \/ ForgetHighlight

SpecHighlight == InitCalls /\ [][NextHighlight]_vars

(***************************************************************************)
(* Spec: the content script analysing the rendered message, the options    *)
(* page and the background worker                                          *)
(***************************************************************************)
\* links: the a[href] elements of the body element, with their href, their
\* innerText (part of bodyText) and whether they carry the red dashed style
Containers == {
  [present |-> TRUE, messageId |-> "m1", hasBodyEl |-> TRUE,
   bodyText |-> "Hi John, thanks for the meeting today.",
   hasFromEl |-> TRUE, fromEmail |-> "colleague@company.com",
   authElements |-> <<"DKIM=pass (company.com) SPF=pass DMARC=pass">>, warningElements |-> <<>>, links |-> <<>>],
  [present |-> TRUE, messageId |-> "m2", hasBodyEl |-> TRUE,
   bodyText |-> "URGENT: act now!!!!\nplease verify your account",
   hasFromEl |-> TRUE, fromEmail |-> "fake-support@scam.com",
   authElements |-> <<"dkim=fail", "spf softfail dmarc=fail (p=reject)">>, warningElements |-> <<>>, links |-> <<>>],
  [present |-> TRUE, messageId |-> "", hasBodyEl |-> TRUE,
   bodyText |-> "www.joby.aero/sharepoint/2025NewPolicy",
   hasFromEl |-> TRUE, fromEmail |-> "colleague",
   authElements |-> <<>>, warningElements |-> <<"Be careful: this looks like phishing">>,
   links |-> <<[href |-> "http://joby-aero.scam.com/x",
                innerText |-> "www.joby.aero/sharepoint/2025NewPolicy", styled |-> FALSE]>>],
  [present |-> TRUE, messageId |-> "m4", hasBodyEl |-> TRUE,
   bodyText |-> "Dear Customer,",
   hasFromEl |-> FALSE, fromEmail |-> "",
   authElements |-> <<"Message not authenticated: dkim and spf">>, warningElements |-> <<>>, links |-> <<>>],
  [present |-> TRUE, messageId |-> "m5", hasBodyEl |-> FALSE, bodyText |-> "",
   hasFromEl |-> TRUE, fromEmail |-> "colleague@company.com",
   authElements |-> <<>>, warningElements |-> <<>>, links |-> <<>>],
  [present |-> TRUE, messageId |-> "m6", hasBodyEl |-> TRUE, bodyText |-> " \n",
   hasFromEl |-> TRUE, fromEmail |-> "colleague@company.com",
   authElements |-> <<>>, warningElements |-> <<>>, links |-> <<>>]}

\* what an AI answer's JSON can carry as "score"; 1e999 parses to Infinity
ParsedScores == {Num(0), Num(40), Num(85), Num(100), Num(150), Num(0 - 20),
                 PosInfinity, StringValue, Undefined}
Explanations == {"", "AI Analysis: sender and links do not match"}
Endpoints == {"", "https://api.example.com/v1/chat/completions"}
ApiKeys == {"", "sk-key"}

Null == [t |-> "object", v |-> 0]
\* a response crosses the extension message channel as JSON: a non-finite
\* number arrives as null, an undefined member is absent
overTheChannel(x) ==
  IF x.t \in {"NaN", "Infinity", "-Infinity"} THEN Null ELSE x

\* the containers Gmail can show: as rendered, or with the body element added
bodyAdded(c) == [c EXCEPT !.hasBodyEl = TRUE, !.bodyText = "please verify your account"]
ShownContainers == Containers \cup {bodyAdded(c) : c \in {d \in Containers : ~d.hasBodyEl}}

\* lines 1491-1519: the header analyseMessage builds from the container
headerOf(c) ==
  (IF c.hasFromEl THEN [from |-> c.fromEmail] ELSE <<>>)
  @@ [authentication |-> extractAuthenticationResults(c)]

headersOf == [c \in ShownContainers |-> headerOf(c)]

\* lines 1474-1482: the body element is missing or its text is blank
noBodyText == [c \in ShownContainers |-> ~c.hasBodyEl \/ trim(c.bodyText) = ""]

\* line 1523, computeHeuristics(emailBody, header), for each container
heuristicsOf == [c \in ShownContainers |-> computeHeuristics(c.bodyText, headersOf[c])]

\* line 1639: cfg.enableAI !== false
enableAIOf(c) == c.enableAI # "false"
\* line 1640 and background.js line 24: cfg.endpointType || 'openai'
endpointTypeOf(c) == IF c.endpointType = "unset" THEN "openai" ELSE c.endpointType

\* Gmail renders a message container
RenderMessage ==
  /\ ~container.present
  /\ \E c \in Containers : container' = c
  /\ analyzedFlag' = FALSE
  /\ safeFlag' = FALSE
  /\ banners' = <<>>
  /\ calls' = NoCalls
  /\ UNCHANGED <<callVars, scoreVars, safeList, workerVars>>

\* Gmail adds the body element to a container it rendered without one; the
\* mutation makes the observer of lines 1726-1733 scan the containers again
BodyRendered ==
  /\ container.present
  /\ ~container.hasBodyEl
  /\ container' = bodyAdded(container)
  /\ UNCHANGED <<callVars, scoreVars, analyzedFlag, safeFlag, banners, safeList, calls, workerVars>>

\* Gmail removes the container once no analysis of it is under way
CloseMessage ==
  /\ container.present
  /\ pc \in {"idle", "done", "rejected"}
  /\ container' = NoContainer
  /\ analyzedFlag' = FALSE
  /\ safeFlag' = FALSE
  /\ banners' = <<>>
  /\ calls' = NoCalls
  /\ pc' = "idle"
  /\ body' = ""
  /\ header' = <<>>
  /\ result' = NoResult
  /\ bg' = IdleWorker
  /\ response' = NoResponse
  /\ UNCHANGED <<prev, scoreVars, safeList, cfg>>

\* one more call of analyseMessage
entered(c) == [c EXCEPT !.entered = Min(MaxCalls, @ + 1)]

\* lines 1450-1452: the container was analysed or marked safe before
alreadyHandled_safeOnly(analyzed, safe) == safe

alreadyHandled(analyzed, safe) == analyzed \/ safe

\* analyseMessage(container) up to the await of line 1511, called by the
\* initial scan or by the observer for the rendered container; another call
\* can start while earlier ones are suspended
AnalyseMessage ==
  /\ container.present
  /\ calls.awaiting < MaxCalls
  /\ IF alreadyHandled(analyzedFlag, safeFlag)
     THEN calls' = entered(calls) /\ UNCHANGED <<callVars, analyzedFlag, safeFlag>>
     ELSE IF container.messageId # "" /\ contains(safeList, container.messageId)
     THEN safeFlag' = TRUE /\ calls' = entered(calls) /\ UNCHANGED <<callVars, analyzedFlag>>
     ELSE /\ analyzedFlag' = TRUE
          /\ UNCHANGED <<safeFlag, prev, header, result>>
          /\ IF noBodyText[container]
             THEN calls' = entered(calls) /\ UNCHANGED <<pc, body>>
             ELSE /\ body' = container.bodyText
                  /\ pc' = "awaitAuth"
                  /\ calls' = [entered(calls) EXCEPT !.awaiting = @ + 1]
  /\ UNCHANGED <<scoreVars, container, banners, safeList, workerVars>>

\* analyseMessage resumed after the await of line 1511: lines 1511-1529 and
\* the storage request of line 1636
AuthenticationExtracted ==
  /\ calls.awaiting > 0
  /\ header' = headersOf[container]
  /\ result' = heuristicsOf[container]
  /\ pc' = IF heuristicsOf[container].threw THEN "rejected" ELSE "awaitConfig"
  /\ calls' = [calls EXCEPT !.awaiting = @ - 1, !.heuristics = @ + 1]
  /\ UNCHANGED <<body, prev, scoreVars, container, analyzedFlag, safeFlag, banners, safeList,
                 workerVars>>

\* the chrome.storage.sync.get callback of analyseMessage, lines 1636-1667
ConfigCallback ==
  /\ pc = "awaitConfig"
  /\ IF ~enableAIOf(cfg)
        THEN /\ banners' = finishWithScore(banners, result, NaN, "AI analysis disabled in settings")
             /\ calls' = [calls EXCEPT !.finishes = @ + 1]
             /\ pc' = "done" /\ UNCHANGED bg
        ELSE IF cfg.apiEndpoint = ""
        THEN /\ banners' = finishWithScore(banners, result, NaN, "")
             /\ calls' = [calls EXCEPT !.finishes = @ + 1]
             /\ pc' = "done" /\ UNCHANGED bg
        ELSE IF endpointTypeOf(cfg) = "openai" /\ cfg.apiKey = ""
        THEN /\ banners' = finishWithScore(banners, result, NaN, "API key required for OpenAI endpoint")
             /\ calls' = [calls EXCEPT !.finishes = @ + 1]
             /\ pc' = "done" /\ UNCHANGED bg
        ELSE /\ pc' = "awaitResponse"
             /\ bg' = [bg EXCEPT !.stage = "message"]
             /\ calls' = [calls EXCEPT !.requests = @ + 1]
             /\ UNCHANGED banners
  /\ UNCHANGED <<body, header, result, prev, scoreVars, container, analyzedFlag, safeFlag,
                 safeList, cfg, response>>

\* background.js lines 14-18 and 209: the analyzeEmail message arrives, the
\* listener asks for the configuration and keeps the channel open
WorkerOnMessage ==
  /\ bg.stage = "message"
  /\ bg' = [bg EXCEPT !.stage = "awaitConfig"]
  /\ UNCHANGED <<callVars, scoreVars, pageVars, cfg, response>>

\* sendResponse called a second time with the same answer
sendResponse_twice(w, r) == [w EXCEPT !.stage = "responded", !.sendResponses = @ + 2]

sendResponse(w, r) == [w EXCEPT !.stage = "responded", !.sendResponses = @ + 1]
ErrorResponse(e) == [kind |-> "error", error |-> e, score |-> Undefined, explanation |-> ""]

\* a worker that never looks at the setting
aiEnabled_always(c) == TRUE

\* background.js lines 23 and 30: if (!enableAI) with enableAI = cfg.enableAI,
\* so a setting that was never stored counts as disabled
aiEnabled(c) == c.enableAI = "true"

\* background.js lines 18-134: the configuration arrives; the worker answers
\* with an error or issues the fetch carrying the email
WorkerConfigCallback ==
  /\ bg.stage = "awaitConfig"
  /\ IF ~aiEnabled(cfg)
        THEN /\ response' = ErrorResponse("AI analysis disabled")
             /\ bg' = sendResponse([bg EXCEPT !.cfg = cfg], response')
        ELSE IF cfg.apiEndpoint = ""
        THEN /\ response' = ErrorResponse("API endpoint missing")
             /\ bg' = sendResponse([bg EXCEPT !.cfg = cfg], response')
        ELSE IF endpointTypeOf(cfg) = "openai" /\ cfg.apiKey = ""
        THEN /\ response' = ErrorResponse("API key missing")
             /\ bg' = sendResponse([bg EXCEPT !.cfg = cfg], response')
        ELSE /\ bg' = [bg EXCEPT !.stage = "fetching", !.fetches = @ + 1, !.cfg = cfg]
             /\ UNCHANGED response
  /\ UNCHANGED <<callVars, scoreVars, pageVars, cfg>>

\* background.js lines 135-207: the fetch settles
WorkerFetchSettled ==
  /\ bg.stage = "fetching"
  /\ \/ \E e \in {"AI analysis failed", "LLM request failed: 500 Internal Server Error",
                  "Invalid LLM response format", "Invalid JSON response from AI"} :
          response' = ErrorResponse(e)
     \/ \E score \in ParsedScores : \E explanation \in Explanations :
          response' = [kind |-> "result", error |-> "", score |-> score, explanation |-> explanation]
  /\ bg' = sendResponse(bg, response')
  /\ UNCHANGED <<callVars, scoreVars, pageVars, cfg>>

\* the worker is terminated before it answered: the channel closes
WorkerStopped ==
  /\ bg.stage \in {"message", "awaitConfig", "fetching"}
  /\ bg' = [bg EXCEPT !.stage = "stopped"]
  /\ UNCHANGED <<callVars, scoreVars, pageVars, cfg, response>>

\* the chrome.runtime.sendMessage callback of analyseMessage, lines 1668-1685
ResponseCallback ==
  /\ pc = "awaitResponse"
  /\ bg.stage \in {"responded", "stopped"}
  /\ banners' =
       IF bg.stage = "stopped"
       THEN finishWithScore(banners, result, NaN, "AI Error: The message port closed before a response was received.")
       ELSE IF response.kind = "error"
       THEN finishWithScore(banners, result, NaN, "AI Error: " \o response.error)
       ELSE IF typeof(overTheChannel(response.score)) = "number"
       THEN finishWithScore(banners, result, overTheChannel(response.score), response.explanation)
       ELSE finishWithScore(banners, result, NaN, "AI Error: Invalid response format")
  /\ calls' = [calls EXCEPT !.finishes = @ + 1]
  /\ pc' = "done"
  /\ UNCHANGED <<body, header, result, prev, scoreVars, container, analyzedFlag, safeFlag,
                 safeList, workerVars>>

\* the click handler of the banner's "Mark as Safe" button, lines 1273-1285
MarkSafe ==
  /\ Len(banners) > 0
  /\ safeFlag' = TRUE
  /\ safeList' = IF container.messageId # "" /\ ~contains(safeList, container.messageId)
                 THEN Append(safeList, container.messageId) ELSE safeList
  /\ banners' = Tail(banners)
  /\ UNCHANGED <<callVars, scoreVars, container, analyzedFlag, calls, workerVars>>

\* the submit handler of the options page, options.js lines 83-104
SaveOptions ==
  /\ \E enableAI \in {"true", "false"} : \E endpoint \in Endpoints : \E key \in ApiKeys :
       \E endpointType \in {"openai", "fastapi"} :
         cfg' = [enableAI |-> enableAI, apiEndpoint |-> endpoint,
                 apiKey |-> IF endpointType = "fastapi" THEN "" ELSE key,
                 endpointType |-> endpointType]
  /\ UNCHANGED <<callVars, scoreVars, pageVars, bg, response>>

Next ==
  \/ RenderMessage
  \/ BodyRendered
  \/ CloseMessage
  \/ AnalyseMessage
  \/ AuthenticationExtracted
  \/ ConfigCallback
  \/ WorkerOnMessage
  \/ WorkerConfigCallback
  \/ WorkerFetchSettled
  \/ WorkerStopped
  \/ ResponseCallback
  \/ MarkSafe
  \/ SaveOptions

Spec == Init /\ [][Next]_vars

\* the observer fires after every mutation, chrome.storage and chrome.runtime
\* deliver every callback, the worker handles a message it received and its
\* fetch settles
FairSpec ==
  /\ Spec
  /\ WF_vars(AnalyseMessage)
  /\ WF_vars(AuthenticationExtracted)
  /\ WF_vars(ConfigCallback)
  /\ WF_vars(WorkerOnMessage)
  /\ WF_vars(WorkerConfigCallback)
  /\ WF_vars(WorkerFetchSettled)
  /\ WF_vars(ResponseCallback)

(***************************************************************************)
(* SpecWorker: the background worker answering analyzeEmail requests, one  *)
(* at a time, under every stored configuration.  chrome.storage and        *)
(* chrome.runtime deliver every callback and the fetch settles.            *)
(***************************************************************************)
WorkerConfigs ==
  {NoConfig, LegacyConfig}
  \cup {[enableAI |-> e, apiEndpoint |-> ep, apiKey |-> IF t = "fastapi" THEN "" ELSE k,
         endpointType |-> t] :
          e \in {"true", "false"}, ep \in Endpoints, k \in ApiKeys, t \in {"openai", "fastapi"}}

\* chrome.runtime.sendMessage({action: 'analyzeEmail', ...}), lines 1662-1668,
\* for the next message, whatever the configuration holds by then
RequestSent ==
  /\ pc \in {"idle", "done"}
  /\ pc' = "awaitResponse"
  /\ \E c \in WorkerConfigs : cfg' = c
  /\ banners' = <<>>
  /\ bg' = [IdleWorker EXCEPT !.stage = "message"]
  /\ response' = NoResponse
  /\ calls' = [NoCalls EXCEPT !.requests = 1]
  /\ UNCHANGED <<body, header, result, prev, scoreVars, container, analyzedFlag, safeFlag, safeList>>

NextWorker ==
  \/ RequestSent
  \/ WorkerOnMessage
  \/ WorkerConfigCallback
  \/ WorkerFetchSettled
  \/ WorkerStopped
  \/ ResponseCallback

SpecWorker ==
  /\ InitCalls
  /\ [][NextWorker]_vars
  /\ WF_vars(WorkerOnMessage)
  /\ WF_vars(WorkerConfigCallback)
  /\ WF_vars(WorkerFetchSettled)
  /\ WF_vars(ResponseCallback)

(***************************************************************************)
(* Properties of computeHeuristics                                         *)
(***************************************************************************)
Protocols == {"dkim", "spf", "dmarc"}
hasAuthentication(h) == "authentication" \in DOMAIN h
allStatus(h, v) == hasAuthentication(h) /\ \A p \in Protocols : h.authentication[p].status = v
returned == pc = "returned" /\ ~result.threw

\* C1: the running score of computeHeuristics is never negative at any point
\* of the computation, and a returned score is an integer in [0, 70].
C1_ScoreInRange ==
  pc = "returned" =>
    /\ \A k \in 1..Len(result.trace) : result.trace[k] >= 0
    /\ ~result.threw => result.score \in 0..70

\* a pass discount applied to a running score of 0 and floored there
C1_Witness ==
  /\ returned
  /\ allStatus(header, "pass")
  /\ result.trace = <<0, 0, 0, 0, 0>>

\* C3 (as claimed): computeHeuristics never raises on malformed input (no
\* `from`, a `from` without '@', an empty body); it returns a result in which
\* the sender detectors contribute no finding.
senderFinding(d) ==
  \/ startsWith(d, "Suspicious sender domain")
  \/ startsWith(d, "Links point to domains that differ from sender")
malformedInput == body = "" \/ "from" \notin DOMAIN header \/ ~includes(header.from, "@")
C3_NeverRaises ==
  pc = "returned" /\ malformedInput =>
    /\ ~result.threw
    /\ ("from" \notin DOMAIN header \/ ~includes(header.from, "@")) =>
         \A k \in 1..Len(result.details) : ~senderFinding(result.details[k])

\* C8 (as claimed): whenever dkim, spf and dmarc all failed, whatever the body
\* and sender, computeHeuristics returns the capped score 70 and details holds
\* the three failure findings, the multiple-failures finding and the
\* all-failed finding.
C8_AllFailed ==
  pc = "returned" /\ allStatus(header, "fail") =>
    /\ ~result.threw
    /\ result.score >= 70
    /\ contains(result.details, "DKIM authentication failed")
    /\ contains(result.details, "SPF authentication failed")
    /\ contains(result.details, "DMARC authentication failed")
    /\ contains(result.details, "Multiple authentication failures (3)")
    /\ contains(result.details, "All email authentication methods failed - high phishing risk")

\* C9: when no body or sender detector fired (lines 757-1003 left score,
\* details and suspiciousElements as they were initialised) and dkim, spf and
\* dmarc all passed, the score is below 20, suspiciousElements is empty and
\* details holds only authentication-passed notices.
passedNotices == {"DKIM authentication passed", "SPF authentication passed", "DMARC authentication passed"}
noDetectorFired == beforeAuth(bodyDetectors(body), body, header) = [threw |-> FALSE, st |-> EmptyRun]
C9_CleanAndPassed ==
  returned /\ allStatus(header, "pass") /\ noDetectorFired =>
    /\ result.score < 20
    /\ result.suspiciousElements = <<>>
    /\ \A k \in 1..Len(result.details) : result.details[k] \in passedNotices

C9_Witness ==
  /\ returned /\ allStatus(header, "pass") /\ noDetectorFired
  /\ body = "Hi John, thanks for the meeting today."
  /\ header.from = "colleague@company.com"
  /\ Len(result.details) = 3

\* C10 (as claimed): a body that is just an http link to a domain of
\* suspiciousDomains, sent with all authentication statuses unknown, scores
\* above 15 and has that domain in suspiciousElements.
C10_ListedDomainLink ==
  \A k \in 1..Len(suspiciousDomains) :
    (returned /\ allStatus(header, "unknown") /\ body = "http://" \o suspiciousDomains[k]) =>
      /\ result.score > 15
      /\ contains(result.suspiciousElements, suspiciousDomains[k])

(***************************************************************************)
(* Properties of two calls of computeHeuristics                            *)
(***************************************************************************)
urgentFinding(d) ==
  \/ endsWith(d, " urgent keyword")
  \/ endsWith(d, " urgent keywords")
  \/ d = "Dangerous combination: urgent language + action request"

RECURSIVE withoutUrgent(_)
withoutUrgent(ds) ==
  IF Len(ds) = 0 THEN <<>>
  ELSE IF urgentFinding(ds[1]) THEN withoutUrgent(Tail(ds))
  ELSE <<ds[1]>> \o withoutUrgent(Tail(ds))

\* the first body had no urgent keyword and, the urgent keyword apart, every
\* detector found in the second body what it found in the first
onlyUrgentAdded ==
  /\ pc = "returnedTwice" /\ ~prev.threw /\ ~result.threw
  /\ withoutUrgent(prev.details) = prev.details
  /\ withoutUrgent(result.details) = prev.details
  /\ result.suspiciousElements = prev.suspiciousElements

\* C7: adding one listed urgent keyword to a body that had none, every other
\* detector's input unchanged, never lowers the score computeHeuristics
\* returns for it.
C7_UrgentKeywordMonotone == onlyUrgentAdded => result.score >= prev.score

\* the keyword raised a score that the three pass discounts then lowered
C7_Witness ==
  /\ onlyUrgentAdded
  /\ allStatus(header, "pass")
  /\ prev.score = 3
  /\ result.score = 11

(***************************************************************************)
(* Properties of combineScores                                             *)
(***************************************************************************)
\* C4 (as claimed): combineScores(h, r) returns h unchanged whenever r is not
\* a finite number (NaN, a non-number or an infinite value) and never returns
\* a non-finite value.
C4_NonFiniteGivesHeuristics ==
  pc = "combined" =>
    /\ ~isFinite(args[2]) => ret = args[1]
    /\ isFinite(ret)

\* C5: for integers h and r in [0, 100], combineScores(h, r) is
\* h*0.4 + r*0.6 rounded to the nearest integer, and lies in [0, 100].
C5_WeightedAverage ==
  pc = "combined" /\ isFinite(args[2]) /\ args[2].v \in 0..100 =>
    /\ isFinite(ret)
    /\ ret.v \in 0..100
    /\ (4 * args[1].v + 6 * args[2].v) - 10 * ret.v \in (0 - 5)..4

C5_Witness ==
  /\ pc = "combined"
  /\ args = <<Num(58), Num(85)>>
  /\ ret = Num(74)

(***************************************************************************)
(* Properties of the analysis flow                                         *)
(***************************************************************************)
\* C2 (as claimed): whatever the background worker answers, the final score
\* finishWithScore hands to the banner is an integer in [0, 100].
C2_FinalScoreInRange ==
  \A k \in 1..Len(banners) : isFinite(banners[k].score) /\ banners[k].score.v \in 0..100

\* C11: a body that holds a bare display-text path on a listed brand domain
\* and no href makes the deceptive-link detector fire: it adds a positive
\* amount to the running score, pushes a deceptive-link finding and appends
\* 'potentially deceptive link pattern' to suspiciousElements.  The assignment
\* to the score is located in the history of the calls whose header carries no
\* authentication object: the detector runs before the header is read.
BrandPaths == {"www.joby.aero/sharepoint/2025NewPolicy", "PayPal.com/login"}
hasBrandPath(b) == \E p \in BrandPaths : includes(b, p)
noHref(b) == ~includes(toLowerCase(b), "href")
deceptiveFinding(d) == startsWith(d, "Deceptive links detected")
\* the running state the deceptive-link detector starts from (lines 757-807)
beforeDeceptive(b) ==
  With(toLowerCase(b), LAMBDA lowerBody :
    linkCountDetector(keywordDetector(EmptyRun, lowerBody), lowerBody))
highlighted == pc = "highlighted"
endsWithSome(host, doms) == \E k \in 1..Len(doms) : endsWith(host, doms[k])
equalsSome(host, doms) == \E k \in 1..Len(doms) : host = doms[k]

\* C12 (as claimed): a link is flagged if and only if its display text
\* contains a '.' and does not contain the link's lowercase host, or the host
\* ends with an entry of suspiciousDomains.
C12_FlagDecision ==
  highlighted =>
    \A k \in 1..Len(args[1]) :
      args[1][k].href # "" =>
        (ret[k] <=>
           \/ includes(args[1][k].innerText, ".")
                /\ ~includes(args[1][k].innerText, linkHostOf(args[1][k].href))
           \/ endsWithSome(linkHostOf(args[1][k].href), args[2]))

\* C12: a link with an href is flagged if and only if its display text,
\* trimmed and lowercased, contains a '.' and does not contain the link's
\* lowercase host, or the host ends with an entry of suspiciousDomains; a link
\* whose host equals an entry is flagged, a link whose host ends with no entry
\* and whose lowercased text contains the host is not; an href that does not
\* parse has host "" and the call returns a decision for it.
C12_FlagDecisionLowercased ==
  highlighted =>
    /\ Len(ret) = Len(args[1])
    /\ \A k \in 1..Len(args[1]) :
         args[1][k].href # "" =>
           /\ ret[k] \in BOOLEAN
           /\ ret[k] <=>
                \/ includes(toLowerCase(trim(args[1][k].innerText)), ".")
                     /\ ~includes(toLowerCase(trim(args[1][k].innerText)), linkHostOf(args[1][k].href))
                \/ endsWithSome(linkHostOf(args[1][k].href), args[2])
           /\ equalsSome(linkHostOf(args[1][k].href), args[2]) => ret[k]
           /\ ~endsWithSome(linkHostOf(args[1][k].href), args[2])
                /\ includes(toLowerCase(args[1][k].innerText), linkHostOf(args[1][k].href))
                => ~ret[k]
           /\ ~parsesAsUrl(args[1][k].href) => linkHostOf(args[1][k].href) = ""
           /\ linkHostOf(args[1][k].href) = toLowerCase(linkHostOf(args[1][k].href))

C12_Witness ==
  /\ highlighted
  /\ args = <<(<<[href |-> "https://PayPal.com:443/login", innerText |-> "PayPal.com"],
                [href |-> "http://paypal.com@scam.com/x", innerText |-> "PayPal.com"]>>),
              (<<"microsoft-office.com">>)>>
  /\ ret = <<FALSE, TRUE>>

\* the analysis is about to end without a remote score: the configuration
\* callback has not asked for one yet, or the worker stopped, answered with an
\* error or answered without a numeric score
noRemoteScore ==
  \/ pc = "awaitConfig"
  \/ /\ pc = "awaitResponse"
     /\ \/ bg.stage = "stopped"
        \/ response.kind = "error"
        \/ typeof(overTheChannel(response.score)) # "number"

\* C13: whenever an analysis ends without a remote score (AI disabled, not
\* configured, or failed), the banner it inserts shows a final score below 80
\* and is not the 'High risk' one.
C13_HeuristicsNeverHigh ==
  [][noRemoteScore /\ pc' = "done" =>
       /\ Len(banners') = 1
       /\ isFinite(banners'[1].score)
       /\ banners'[1].score.v < 80
       /\ banners'[1].risk # "high"]_vars

C13_Witness ==
  /\ pc = "done"
  /\ bg.stage = "idle"
  /\ response = NoResponse
  /\ cfg.enableAI = "false"
  /\ result.score = 70
  /\ Len(banners) = 1
  /\ banners[1].score = Num(58)
  /\ banners[1].risk = "moderate"

\* the place of a finding in the detector sequence of computeHeuristics
\* (lines 773-1057), 0 for a text no detector writes
detectorRank(d) ==
  IF startsWith(d, "Contains ") /\ (endsWith(d, " keyword") \/ endsWith(d, " keywords")) THEN 1
  ELSE IF startsWith(d, "Dangerous combination") \/ startsWith(d, "Suspicious combination") THEN 2
  ELSE IF startsWith(d, "Contains many links (") THEN 3
  ELSE IF startsWith(d, "Deceptive links detected") THEN 4
  ELSE IF startsWith(d, "Generic/impersonal greeting detected") THEN 5
  ELSE IF startsWith(d, "Suspicious sender domain") THEN 6
  ELSE IF startsWith(d, "Links point to domains that differ from sender") THEN 7
  ELSE IF d \in {"Contains many exclamation marks", "Contains all-caps sentences"} THEN 8
  ELSE IF startsWith(d, "DKIM authentication ") THEN 9
  ELSE IF startsWith(d, "SPF authentication ") THEN 10
  ELSE IF startsWith(d, "DMARC authentication ") THEN 11
  ELSE IF startsWith(d, "Multiple authentication failures (") THEN 12
  ELSE IF d = "All email authentication methods failed - high phishing risk" THEN 13
  ELSE 0

\* C14 (as claimed): the details list is ordered by detector evaluation
\* order: keyword categories, combination bonuses, link count, deceptive
\* links, greeting, sender domain, domain mismatch, punctuation/shouting,
\* authentication; within the authentication findings the per-protocol ones
\* (DKIM, SPF, DMARC) come first, then 'Multiple authentication failures (N)',
\* then 'All email authentication methods failed - high phishing risk'.
C14_DetailsOrder ==
  returned =>
    \A i, j \in 1..Len(result.details) :
      i < j => /\ detectorRank(result.details[i]) >= 1
               /\ detectorRank(result.details[i]) <= detectorRank(result.details[j])

(***************************************************************************)
(* Properties of the safe list                                             *)
(***************************************************************************)
\* the rendered container is marked safe, or not analysed yet with its id in
\* the safe list
safeMessage ==
  /\ container.present
  /\ \/ safeFlag
     \/ /\ ~analyzedFlag
        /\ container.messageId # ""
        /\ \E k \in 1..Len(safeList) : safeList[k] = container.messageId

\* C15: once a message id is in the safe list (loaded at start-up or added by
\* 'Mark as Safe'), every later analyseMessage call on a container with that
\* id bypasses analysis: no heuristic computation, no analyzeEmail request and
\* no banner; and a container marked safe never gets a banner again.
C15_SafeListBypasses ==
  [][safeMessage =>
       /\ banners' = <<>>
       /\ pc' \in {pc, "idle"}
       /\ result' \in {result, NoResult}
       /\ bg' \in {bg, IdleWorker}
       /\ ~analyzedFlag => ~analyzedFlag']_vars

C15_Witness ==
  /\ container.present
  /\ container.messageId = "m2"
  /\ safeList = <<"m1", "m2">>
  /\ safeFlag
  /\ ~analyzedFlag
  /\ banners = <<>>
  /\ pc = "idle"
  /\ result = NoResult

(***************************************************************************)
(* Properties of the background worker                                     *)
(***************************************************************************)
\* C16: the background worker issues a fetch carrying the email only while
\* the stored enableAI setting is true; in particular no step taken while the
\* stored setting is false issues one.
C16_NoFetchWhenDisabled ==
  [][bg'.fetches > bg.fetches =>
       /\ cfg.enableAI = "true"
       /\ bg'.cfg.enableAI = "true"
       /\ bg'.stage = "fetching"]_vars

C16_Witness ==
  /\ pc = "awaitResponse"
  /\ cfg.enableAI = "false"
  /\ cfg.apiEndpoint # ""
  /\ bg.stage = "responded"
  /\ bg.fetches = 0
  /\ response = ErrorResponse("AI analysis disabled")

\* C17 (as claimed): whenever the analysis of a message has completed and its
\* banner is inserted, every link of the message's body that meets the flag
\* condition for the heuristic result's suspiciousElements is highlighted.
C17_LinksHighlighted ==
  pc = "done" /\ Len(banners) = 1 =>
    \A k \in 1..Len(container.links) :
      anchorFlagged(container.links[k], result.suspiciousElements) => container.links[k].styled

(***************************************************************************)
(* Properties of extractAuthenticationResults                              *)
(***************************************************************************)
VerdictStatuses == {"pass", "fail", "neutral", "unknown"}

\* C18 (as claimed): in every authentication verdict extractAuthenticationResults
\* hands to computeHeuristics, the status of dkim, spf and dmarc is one of
\* 'pass', 'fail', 'neutral', 'unknown', and is 'unknown' when the container
\* shows no authentication text and no warning.
C18_StatusEnumerated ==
  container.present /\ hasAuthentication(header) =>
    /\ header.authentication = extractAuthenticationResults(container)
    /\ \A p \in Protocols : header.authentication[p].status \in VerdictStatuses
    /\ container.authElements = <<>> /\ container.warningElements = <<>> =>
         \A p \in Protocols : header.authentication[p].status = "unknown"

(***************************************************************************)
(* Properties of the authentication detector                               *)
(***************************************************************************)
ProtocolOrder == <<"dkim", "spf", "dmarc">>
failWeight == [dkim |-> 15, spf |-> 12, dmarc |-> 18]
statusOf(h, k) == h.authentication[ProtocolOrder[k]].status
\* the score assignments of the first k protocol checks: one per status
\* 'fail' or 'pass'
checkAssignments(h, k) == Cardinality({i \in 1..k : statusOf(h, i) \in {"fail", "pass"}})
failuresOf(h) == Cardinality({i \in 1..3 : statusOf(h, i) = "fail"})
bonusAssignments(h) == IF failuresOf(h) >= 3 THEN 2 ELSE IF failuresOf(h) >= 2 THEN 1 ELSE 0
\* the place in the history of the score the detector starts from: what
\* precedes its assignments and the final cap
authStart(h, trace) == Len(trace) - 1 - bonusAssignments(h) - checkAssignments(h, 3)

\* C19: before the final cap the authentication detector adds exactly 15 for
\* a failed DKIM, 12 for a failed SPF, 18 for a failed DMARC, then 10 when at
\* least two of them failed and a further 15 when all three failed; a failed
\* protocol never lowers the score.
C19_FailureWeights ==
  returned /\ hasAuthentication(header) =>
    With(authStart(header, result.trace), LAMBDA start :
      /\ start >= 1
      /\ \A k \in 1..3 :
           statusOf(header, k) = "fail" =>
             /\ result.trace[start + checkAssignments(header, k)]
                  = result.trace[start + checkAssignments(header, k) - 1] + failWeight[ProtocolOrder[k]]
             /\ result.trace[start + checkAssignments(header, k)]
                  >= result.trace[start + checkAssignments(header, k) - 1]
      /\ failuresOf(header) >= 2 =>
           result.trace[start + checkAssignments(header, 3) + 1]
             = result.trace[start + checkAssignments(header, 3)] + 10
      /\ failuresOf(header) >= 3 =>
           result.trace[start + checkAssignments(header, 3) + 2]
             = result.trace[start + checkAssignments(header, 3) + 1] + 15
      /\ result.score = Min(70, result.trace[Len(result.trace) - 1]))

C19_Witness ==
  /\ returned
  /\ body = ""
  /\ header.from = "colleague@company.com"
  /\ allStatus(header, "fail")
  /\ result.trace = <<0, 15, 27, 45, 55, 70, 70>>

returnedBoth == pc = "returnedBoth" /\ ~result.threw /\ ~prev.threw
authFinding(d) == detectorRank(d) \in 9..13

\* C20: a status other than 'pass' and 'fail' ('neutral', 'unknown') changes
\* no score and adds no finding: the call with the authentication object makes
\* the assignments and findings of the call without it, plus one per status
\* 'pass' or 'fail' and the failure bonuses; and a header without an
\* authentication object gives the same score, details and suspiciousElements
\* as the same header with all three statuses 'unknown' (or 'neutral').
C20_NeutralUnknownSkipped ==
  returnedBoth =>
    /\ Len(result.trace) = Len(prev.trace) + checkAssignments(header, 3) + bonusAssignments(header)
    /\ SubSeq(result.trace, 1, Len(prev.trace) - 1) = SubSeq(prev.trace, 1, Len(prev.trace) - 1)
    /\ Len(result.details) = Len(prev.details) + checkAssignments(header, 3) + bonusAssignments(header)
    /\ \A k \in 1..Len(prev.details) : ~authFinding(prev.details[k])
    /\ result.suspiciousElements = prev.suspiciousElements
    /\ checkAssignments(header, 3) = 0 =>
         /\ result.score = prev.score
         /\ result.details = prev.details
         /\ result = prev

C20_Witness ==
  /\ returnedBoth
  /\ body = "URGENT: act now!!!!"
  /\ header.from = "fake-support@scam.com"
  /\ header.authentication.dkim.status = "neutral"
  /\ header.authentication.spf.status = "unknown"
  /\ header.authentication.dmarc.status = "neutral"
  /\ result = prev
  /\ result.score > 0

(***************************************************************************)
(* Properties of the keyword scoring                                       *)
(***************************************************************************)
\* the distinct entries of a keyword list found in the lowercased body
entriesFound(b, kws) ==
  Cardinality({kw \in {kws[k] : k \in 1..Len(kws)} : includes(toLowerCase(b), kw)})
flag(c) == IF c THEN 1 ELSE 0
\* the assignments of the keyword phase: one per category with a hit, one per
\* combination
keywordAssignments(u, a, s, f) ==
  flag(u > 0) + flag(a > 0) + flag(s > 0) + flag(f > 0) + flag(u > 0 /\ a > 0) + flag(s > 0 /\ a > 0)
categoryFinding(d, name) == startsWith(d, "Contains ") /\ includes(d, " " \o name \o " keyword")
noFinding(details, name) == \A k \in 1..Len(details) : ~categoryFinding(details[k], name)

keywordContribution(u, a, s, f) ==
  /\ result.trace[1] = 0
  /\ Len(result.trace) > keywordAssignments(u, a, s, f)
  /\ result.trace[1 + keywordAssignments(u, a, s, f)]
       = Min(15, 8 * u) + Min(12, 6 * a) + Min(10, 5 * s) + Min(8, 4 * f)
         + 10 * flag(u > 0 /\ a > 0) + 8 * flag(s > 0 /\ a > 0)
  /\ result.trace[1 + keywordAssignments(u, a, s, f)] <= 63
  /\ Cardinality({k \in 1..Len(result.details) : detectorRank(result.details[k]) \in 1..2})
       = keywordAssignments(u, a, s, f)
  /\ u = 0 => noFinding(result.details, "urgent")
  /\ a = 0 => noFinding(result.details, "action")
  /\ s = 0 => noFinding(result.details, "security")
  /\ f = 0 => noFinding(result.details, "financial")

Sentinel == "potentially deceptive link pattern"
\* the domain a display text shows: the text without scheme, up to the path
displayedDomainOf(text) ==
  With(stripScheme(text), LAMBDA t : SubSeq(t, 1, FindChar(t, 1, {"/"}) - 1))
\* leading www. stripped, last two labels
baseDomainOf(d) ==
  With(split(stripWww(toLowerCase(d)), "."), LAMBDA parts :
    IF Len(parts) >= 2 THEN lastTwo(parts) ELSE toLowerCase(d))
RECURSIVE differingAnchors(_)
\* the destinations of the anchor-style matches whose base domains differ
differingAnchors(ms) ==
  IF Len(ms) = 0 THEN <<>>
  ELSE (IF baseDomainOf(displayedDomainOf(ms[1].g1)) # baseDomainOf(ms[1].g2)
        THEN <<ms[1].g2>> ELSE <<>>) \o differingAnchors(Tail(ms))
RECURSIVE differingMarkdown(_)
differingMarkdown(ms) ==
  IF Len(ms) = 0 THEN <<>>
  ELSE (IF domainInText(ms[1].g1).found
           /\ baseDomainOf(domainInText(ms[1].g1).g1) # baseDomainOf(ms[1].g2)
        THEN <<ms[1].g2>> ELSE <<>>) \o differingMarkdown(Tail(ms))
\* the place in the history of the score the deceptive-link detector starts
\* from: after the keyword phase and the link count
deceptiveStart(b) ==
  1 + keywordAssignments(entriesFound(b, urgentKeywords), entriesFound(b, actionKeywords),
                         entriesFound(b, securityKeywords), entriesFound(b, financialKeywords))
    + flag(linkCountOf(toLowerCase(b)) > 5)
noSenderDomain == ~includes(header.from, "@")

\* C22 (as claimed): for every anchor-style or markdown-style match the
\* detector records a mismatch pair exactly when the base domain (leading
\* 'www.' stripped, last two labels) of the displayed domain differs from that
\* of the destination, nothing for equal base domains; its contribution is
\* min(25, 15 * number of recorded entries).  Read off the calls whose sender
\* has no domain, where suspiciousElements holds the recorded destinations only.
C22_MismatchPairs ==
  returned /\ noSenderDomain =>
    With(toLowerCase(body), LAMBDA lb :
      /\ SelectSeq(result.suspiciousElements, LAMBDA e : e # Sentinel)
           = differingAnchors(execAll("anchorText", body, lb, 1))
             \o differingAnchors(execAll("anchorUrl", body, lb, 1))
             \o differingMarkdown(execAll("markdown", body, lb, 1))
      /\ Len(result.suspiciousElements) > 0 =>
           result.trace[deceptiveStart(body) + 1]
             = result.trace[deceptiveStart(body)] + Min(25, 15 * Len(result.suspiciousElements)))

(***************************************************************************)
(* Properties of the sender/link mismatch detector                         *)
(***************************************************************************)
mismatchFinding(d) == startsWith(d, "Links point to domains that differ from sender")
\* the running state the mismatch detector starts from (lines 757-961)
beforeMismatch(b, from) == senderDomainDetector(bodyDetectors(b), from)
\* the link domains of the body, each one once
linkDomainSet(b) ==
  With(domainsInBody(toLowerCase(b)), LAMBDA ds : {ds[k] : k \in 1..Len(ds)})
\* those that do not end with the lowercased sender domain
mismatchSet(b, from) ==
  {d \in linkDomainSet(b) : ~endsWith(d, toLowerCase(senderDomainOf(from)))}

\* C23: for a sender with an '@', a link domain mismatches exactly when it does
\* not end with the lowercased sender domain; each distinct link domain counts
\* once; the detector adds min(25, 5 * mismatches) and appends exactly the
\* mismatching domains to suspiciousElements; with no mismatch it adds no
\* score, no finding and no element.
C23_SenderLinkMismatch ==
  returned /\ includes(header.from, "@") =>
    With(beforeMismatch(body, header.from), LAMBDA st :
    With(mismatchSet(body, header.from), LAMBDA mm :
    With(Len(st.suspiciousElements), LAMBDA k :
      /\ SubSeq(result.trace, 1, Len(st.trace)) = st.trace
      /\ Len(result.suspiciousElements) = k + Cardinality(mm)
      /\ SubSeq(result.suspiciousElements, 1, k) = st.suspiciousElements
      /\ {result.suspiciousElements[i] : i \in (k + 1)..(k + Cardinality(mm))} = mm
      /\ (\E i \in 1..Len(result.details) : mismatchFinding(result.details[i])) <=> mm # {}
      /\ mm # {} =>
           result.trace[Len(st.trace) + 1] = st.score + Min(25, 5 * Cardinality(mm))
      /\ mm = {} => result.score = Min(70, shoutingDetector(st, body).score))))

C23_Witness ==
  /\ returned
  /\ body = urlsBody("login.example.org", "evil.example.net")
  /\ header.from = "x@example.org"
  /\ result.suspiciousElements = <<"evil.example.net">>
  /\ result.trace = <<0, 5, 10, 10>>

(***************************************************************************)
(* Properties of the sender-domain detector                                *)
(***************************************************************************)
senderDomainFinding(d) == startsWith(d, "Suspicious sender domain")
findingsCount(ds, P(_)) == Cardinality({k \in 1..Len(ds) : P(ds[k])})
onLookalikeList(d) == \E k \in 1..Len(suspiciousDomains) : includes(d, suspiciousDomains[k])
\* what the claim gives a sender domain
senderContribution(d) ==
  IF isSuspiciousDomain(d) THEN 15 ELSE IF onLookalikeList(d) THEN 10 ELSE 0

\* C24: the sender-domain detector contributes exactly one of 0, 10 and 15:
\* 15 when the sender domain matches a structural pattern, otherwise 10 when
\* it contains an entry of the lookalike list, otherwise 0, never both; when
\* `from` has no '@' the sender domain is "" and neither the sender-domain nor
\* the mismatch detector contributes score or finding.
C24_SenderDomainContribution ==
  returned =>
    With(bodyDetectors(body), LAMBDA st :
    With(senderContribution(senderDomainOf(header.from)), LAMBDA c :
      /\ SubSeq(result.trace, 1, Len(st.trace)) = st.trace
      /\ c > 0 =>
           /\ result.trace[Len(st.trace) + 1] = st.score + c
           /\ findingsCount(result.details, senderDomainFinding) = 1
           /\ result.score
                = Min(70, shoutingDetector(
                            mismatchDetector(AddScore(st, c), toLowerCase(body), header.from),
                            body).score)
      /\ c = 0 =>
           /\ findingsCount(result.details, senderDomainFinding) = 0
           /\ result.score
                = Min(70, shoutingDetector(
                            mismatchDetector(st, toLowerCase(body), header.from), body).score)
      /\ ~includes(header.from, "@") =>
           /\ senderDomainOf(header.from) = ""
           /\ c = 0
           /\ findingsCount(result.details, senderFinding) = 0
           /\ result.suspiciousElements = st.suspiciousElements
           /\ result.score = Min(70, shoutingDetector(st, body).score)))

C24_Witness ==
  /\ returned
  /\ body = "Hi John, thanks for the meeting today."
  /\ header.from = "x@mail1.paypal.com.security.login.com"
  /\ result.score = 15
  /\ result.details = <<"Suspicious sender domain pattern: mail1.paypal.com.security.login.com">>

(***************************************************************************)
(* Properties of the end of an analysis                                    *)
(***************************************************************************)
\* the explanations analyseMessage passes along with NaN (lines 1646-1683)
unavailableExplanations ==
  {"AI analysis disabled in settings", "", "API key required for OpenAI endpoint",
   "AI Error: The message port closed before a response was received.",
   "AI Error: " \o response.error, "AI Error: Invalid response format"}
heuristicsOnly(score) ==
  "Final Score: " \o ToString(normalizedHeuristicOf(score)) \o "/100 (heuristics only)"

\* C25: whenever an analysis ends without a usable remote score (the channel
\* closed, the response carries an error or no numeric score, AI is disabled,
\* the endpoint or the key is missing), finishWithScore is called with NaN:
\* the banner is inserted and its final score is the normalized heuristic
\* score alone.
C25_UnavailableIsNotAnError ==
  [][noRemoteScore /\ pc' = "done" =>
       /\ Len(banners') = 1
       /\ banners'[1].score = Num(normalizedHeuristicOf(result.score))
       /\ contains(banners'[1].details, heuristicsOnly(result.score))
       /\ \E e \in unavailableExplanations :
            banners' = finishWithScore(<<>>, result, NaN, e)]_vars

C25_Witness ==
  /\ pc = "done"
  /\ bg.stage = "responded"
  /\ response.kind = "result"
  /\ response.score = StringValue
  /\ result.score = 70
  /\ Len(banners) = 1
  /\ banners[1].score = Num(58)
  /\ contains(banners[1].details, "\nAI Analysis:\nAI Error: Invalid response format")

(***************************************************************************)
(* Properties of the enableAI default                                      *)
(***************************************************************************)
\* the configuration the worker read has an endpoint and a key and no
\* enableAI setting
configuredWithoutSetting(c) == c.enableAI = "unset" /\ c.apiEndpoint # "" /\ c.apiKey # ""

\* C26 (as claimed): when enableAI was never stored and the endpoint and key
\* are configured, the content script requests the remote analysis and the
\* background worker performs it: it never answers 'AI analysis disabled'.
C26_DefaultEnabled ==
  bg.stage = "responded" /\ configuredWithoutSetting(bg.cfg) =>
    ~(response.kind = "error" /\ response.error = "AI analysis disabled")

(***************************************************************************)
(* Properties of the analysis as a whole                                   *)
(***************************************************************************)
safeListed == safeFlag \/ (container.messageId # "" /\ contains(safeList, container.messageId))
\* a rendered container that is not safe-listed and whose body is not empty
needsBanner ==
  /\ container.present
  /\ container.hasBodyEl
  /\ trim(container.bodyText) # ""
  /\ ~safeListed
bannerShown == Len(banners) > 0

\* C27 (as claimed): under fair delivery of the observer, storage and runtime
\* callbacks, every container that is not safe-listed and has a non-empty
\* body eventually displays a banner (unless Gmail removes it first), with or
\* without a sender element, and whether or not the body element was there
\* at the first scan.
C27_EventuallyBanner == needsBanner ~> (bannerShown \/ ~container.present)

\* C28: however the calls of analyseMessage made by the initial scan and by
\* the observer for one container interleave, computeHeuristics is called at
\* most once, at most one analyzeEmail request is sent, finishWithScore is
\* called at most once and the container never holds more than one banner.
C28_AnalysedOnce ==
  /\ calls.heuristics <= 1
  /\ calls.requests <= 1
  /\ calls.finishes <= 1
  /\ Len(banners) <= 1

\* a second call came while the first one was suspended at its await
C28_Witness ==
  /\ calls.entered >= 2
  /\ calls.awaiting = 1
  /\ pc = "awaitAuth"
  /\ analyzedFlag

(***************************************************************************)
(* Properties of the background listener                                   *)
(***************************************************************************)
\* the listener has not answered yet
handling == bg.stage \in {"message", "awaitConfig", "fetching"}

sentinelsIn(elements) == Cardinality({k \in 1..Len(elements) : elements[k] = Sentinel})

\* C30 (as claimed): a body whose only link-like text is one bare brand-domain
\* path token, such as www.joby.aero/sharepoint/2025NewPolicy, yields exactly
\* one deceptive-link entry: the detector contributes 15 and suspiciousElements
\* holds exactly one 'potentially deceptive link pattern' sentinel.
C30_BrandPathCountedOnce ==
  returned /\ body \in BrandPaths =>
    /\ sentinelsIn(result.suspiciousElements) = 1
    /\ result.trace[deceptiveStart(body) + 1] = result.trace[deceptiveStart(body)] + 15

====
